---- MODULE Spec2Model ----
(***************************************************************************)
(* Skillbook: the usage-tracking hook (hooks/skill-usage-tracker.py) and   *)
(* the CLI (skills/skillbook/skillbook.py) sharing one stats file.         *)
(*                                                                         *)
(* Every invocation of the hook or of the CLI is its own process.  The     *)
(* only shared state is the file system: the stats file, its directory and *)
(* the temporary files the hook creates next to it.  A process slot runs   *)
(* one invocation at a time and may be reused by a later invocation.       *)
(*                                                                         *)
(* Strings are sequences of chunks: "/" and " " are single characters,     *)
(* ":" is the namespace separator, and "wrap" / "session-wrap" stand for   *)
(* runs of characters of the class [a-zA-Z0-9_-].                          *)
(***************************************************************************)
EXTENDS Integers, Sequences, FiniteSets, TLC

\* ---- bounds ----
NumProcs == 2
MaxInvocations == 3
MaxDay == 2
MaxPromptLen == 3
MaxUses == 1000
MaxInstalls == 2
MaxEntries == 2
MaxHooks == 2
MaxOps == 2

Procs == 1..NumProcs

\* ---- strings ----
Chunks == {"/", " ", ":", "wrap", "session-wrap"}

\* the character class [a-zA-Z0-9_:-] of extract_command's pattern
IsTokenChunk(c) == c \in {":", "wrap", "session-wrap"}

RECURSIVE SeqsUpTo(_)
SeqsUpTo(n) ==
    IF n = 0 THEN {<<>>}
    ELSE LET shorter == SeqsUpTo(n - 1)
         IN  shorter \cup {Append(s, c) : s \in {t \in shorter : Len(t) = n - 1}, c \in Chunks}

Prompts == SeqsUpTo(MaxPromptLen)

WRAP == <<"wrap">>
SESSION_WRAP == <<"session-wrap">>
SESSION_WRAP_WRAP == <<"session-wrap", ":", "wrap">>

\* ALIASES = {"wrap": "session-wrap:wrap"}
ALIASES == [k \in {WRAP} |-> SESSION_WRAP_WRAP]

\* ---- the stats document ----
NewSkill == [uses |-> 0, lastUsed |-> 0, pinned |-> FALSE]

\* lastUsed / lastUpdated: 0 is None / key missing, d > 0 is the date of day d
EmptyStats == [version |-> 1, totalUses |-> 0, lastUpdated |-> 0, skills |-> <<>>]

RECURSIVE SumUses(_, _)
SumUses(skills, ids) ==
    IF ids = {} THEN 0
    ELSE LET k == CHOOSE x \in ids : TRUE
         IN  skills[k].uses + SumUses(skills, ids \ {k})

TotalOfSkills(doc) == SumUses(doc.skills, DOMAIN doc.skills)

\* ---- the file system ----
\* content of the stats file: absent, torn (empty or a proper prefix of a
\* serialised document, which never parses), or a complete document
\* ino is the inode the path names, len the number of bytes of a torn file,
\* by the invocation that wrote the content last (0: none of them)
Absent == [kind |-> "absent", doc |-> EmptyStats, ino |-> 0, len |-> 0, by |-> 0]
Torn(i, n, w) == [kind |-> "torn", doc |-> EmptyStats, ino |-> i, len |-> n, by |-> w]
Complete(d, i, w) == [kind |-> "doc", doc |-> d, ino |-> i, len |-> 0, by |-> w]
\* a file that parses as JSON whose root is not an object, such as []
NonObject == [kind |-> "nonobject", doc |-> EmptyStats, ino |-> 0, len |-> 2, by |-> 0]

\* the installed commands (~/.claude/commands/<id>.md), local skills
\* (~/.claude/skills/<id>/SKILL.md), the installs of installed_plugins.json in
\* the order of the file, and the project's skills (./.claude/skills); an
\* install has the plugin's name (the registry key up to "@"), whether its
\* directory holds a SKILL.md (root) and the names under its skills directory
Install(n, r, sk) == [name |-> n, root |-> r, skills |-> sk]
FullFs == [commands |-> {SESSION_WRAP},
           skills |-> {},
           plugins |-> <<Install(SESSION_WRAP, FALSE, {WRAP})>>,
           project |-> {}]
FsStates ==
    {[commands |-> c, skills |-> s, plugins |-> pl, project |-> {}] :
        c \in SUBSET {SESSION_WRAP},
        s \in SUBSET {WRAP},
        pl \in {<<>>, <<Install(SESSION_WRAP, FALSE, {WRAP})>>}}

\* ---- the configuration file ----
\* kind: absent, unparsable (not JSON), nonobject (JSON whose root is not an
\* object) or object; statsFile of an object: missing, nonstring (a non-empty
\* value that is not a string), empty (""), or a path: default (the default
\* path, as the installer writes it), skilldir (a path inside
\* ~/.claude/skills/skillbook), home (any other path under the home directory)
\* or outside (a path outside of the home directory)
Config(k, sf) == [kind |-> k, statsFile |-> sf]
NoConfig == Config("absent", "missing")
Paths == {"default", "skilldir", "home", "outside"}
Configs ==
    {Config(k, "missing") : k \in {"absent", "unparsable", "nonobject"}}
        \cup {Config("object", sf) :
                  sf \in {"missing", "nonstring", "empty", "home", "outside"}}

\* the outcome of resolving the stats path: the exception raised ("none" if
\* none), the location (default, home, outside, or cwd: the working directory
\* itself) and the lines of warning printed to the error stream
Resolved(x, loc, w) == [raised |-> x, loc |-> loc, warn |-> w]

VARIABLES
    today,      \* the current date (day number, >= 1)
    fs,         \* commands / skills / plugins on disk
    config,     \* content of ~/.claude/skillbook.config.json
    dirExists,  \* the stats file's directory exists
    file,       \* the visible stats file
    temps,      \* invocations whose temporary file exists in the directory
    started,    \* number of invocations started so far
    kind,       \* per slot: "hook", "use", "pin", a display command, "dashboard"
    pc,         \* per slot: position of the invocation
    id,         \* per slot: number of the invocation
    input,      \* per slot: the hook's stdin / the CLI's <id> argument
    path,       \* per slot: where the invocation resolved the stats file to be
    err,        \* per slot: lines printed to the error stream
    name,       \* per slot: the skill identifier being recorded
    base,       \* per slot: the document the invocation loaded
    upd,        \* per slot: the document the invocation is about to write
    fd,         \* per slot: inode of the stats file the CLI holds open for writing
    levels,     \* per slot: <<old_level, new_level>>
    out,        \* per slot: lines printed to standard output
    fault,      \* per slot: exception that left main() unhandled ("none" if none)
    failed,     \* per slot: exception main() caught and swallowed ("none" if none)
    effects,    \* per slot: file system changes the invocation has made
    skillDir,   \* ~/.claude/skills/skillbook exists
    hookFiles,  \* suffixes of the files ~/.claude/hooks/skill-usage-tracker.*
    settings,   \* ~/.claude/settings.json
    backups,    \* the contents of the files settings.json.bak.<timestamp>
    run,        \* the installer's run: operation, steps called, failures, message
    statsLoc,   \* the location of the stats file: a member of Paths
    ipc,        \* position of the installer
    purge,      \* the installer was called with --purge
    count,      \* a usage count given to the level and rarity functions
    wide,       \* a usage count beyond 32 bits, as digits (see Radix)
    shown,      \* what the functions returned for count and wide (-1: not called)
    reported,   \* old and new level of the latest use recorded on count
    resolver,   \* the catalogs scanned and the identifiers the hook accepted
    located     \* the working directory, and the stats path each program resolved

\* the evaluation of the pure functions
calc == <<count, wide, shown, reported>>
\* what the read-only operations returned
views == <<resolver, located>>
\* what the installer works on, besides the configuration and the stats file
inst == <<skillDir, hookFiles, settings, backups, run, statsLoc, ipc, purge>>
\* what no invocation of the hook or of the CLI changes
env == <<fs, config, calc, inst, views>>
\* the file system and the clock
disk == <<today, fs, config, dirExists, file, temps, started>>
shared == <<today, env, dirExists, file, temps, started>>
local == <<kind, pc, id, input, path, err, name, base, upd, fd, levels, out, fault,
           failed, effects>>
vars == <<shared, local>>

NotShown == [hook |-> -1, cli |-> -1, dash |-> -1, wide |-> -1,
             rarity |-> <<>>, stars |-> -1]
NotReported == [hook |-> <<0, 0>>, cli |-> <<0, 0>>]

InitCalc ==
    /\ count = 0
    /\ wide = <<>>
    /\ shown = NotShown
    /\ reported = NotReported

NotScanned == [scanned |-> FALSE, cli |-> <<>>, dash |-> <<>>,
               checked |-> FALSE, known |-> {}]

\* cwd: the working directory is under the home directory ("home") or not
\* ("outside"); by: the programs that have resolved the stats path
Unresolved == Resolved("none", "none", <<>>)
NotLocated == [cwd |-> "home", by |-> {}, hook |-> Unresolved, cli |-> Unresolved,
               dash |-> Unresolved, inst |-> Unresolved]

InitViews == resolver = NotScanned /\ located = NotLocated

\* ---- settings.json ----
\* hook commands: the one the installer registers (HOOK_COMMAND), an older one
\* that holds one of HOOK_DETECT_PATTERNS, and the command of another tool
HOOK_COMMAND == "python3 ~/.claude/hooks/skill-usage-tracker.py"
OLD_COMMAND == "bash ~/.claude/hooks/skill-usage-tracker.sh"
OTHER_COMMAND == "python3 ~/.claude/hooks/notify.py"
HookCommands == {HOOK_COMMAND, OLD_COMMAND, OTHER_COMMAND}

\* any(pattern in cmd for pattern in HOOK_DETECT_PATTERNS)
IsSkillbookCommand(cmd) == cmd \in {HOOK_COMMAND, OLD_COMMAND}

\* an entry of hooks.UserPromptSubmit: whether it has a "matcher" field, and
\* the commands of its "hooks" list
HookEntry(m, hs) == [matcher |-> m, hooks |-> hs]
new_hook_entry == HookEntry(FALSE, <<HOOK_COMMAND>>)

\* a settings object: keys (it has keys other than "hooks"), hooks (it has the
\* key "hooks"), events (hooks has events other than UserPromptSubmit), ups
\* (hooks has the key UserPromptSubmit) and the list UserPromptSubmit holds
Data(k, h, e, u, l) == [keys |-> k, hooks |-> h, events |-> e, ups |-> u, list |-> l]
EmptyObject == Data(FALSE, FALSE, FALSE, FALSE, <<>>)

\* the file: absent, blank (no text but white space), unparsable, or doc
SettingsFile(k, d) == [kind |-> k, data |-> d]
NoSettings == SettingsFile("absent", EmptyObject)
Registered == SettingsFile("doc", Data(FALSE, TRUE, FALSE, TRUE, <<new_hook_entry>>))

\* the run of the installer: the operation, the number of operations started,
\* the steps called so far, the steps that failed, and the closing message
Run(o, n, st, f, m) == [op |-> o, n |-> n, steps |-> st, fails |-> f, said |-> m]

\* the installer does not run and the stats file is at its default path
InitInst ==
    /\ skillDir = TRUE
    /\ hookFiles = {".py"}
    /\ settings = Registered
    /\ backups = <<>>
    /\ run = Run("none", 0, <<>>, {}, "")
    /\ statsLoc = "default"
    /\ ipc = "idle"
    /\ purge = FALSE

\* ---- pure functions of the hook ----
Max(a, b) == IF a >= b THEN a ELSE b

\* int(math.sqrt(n)) for n >= 0
RECURSIVE SqrtFrom(_, _)
SqrtFrom(n, r) == IF (r + 1) * (r + 1) > n THEN r ELSE SqrtFrom(n, r + 1)
IntSqrt(n) == SqrtFrom(n, 0)

\* mutant: the level starts again from 1 at every tenth level
calculate_level_wrapping(uses) ==
    IF uses <= 0 THEN 0 ELSE Max(1, IntSqrt(uses * 10) % 10)

calculate_level(uses) == IF uses <= 0 THEN 0 ELSE Max(1, IntSqrt(uses * 10))

\* the stdin of a hook invocation: empty, nonjson, nonobject (JSON whose root is
\* not an object), nonstring (an object whose "prompt" is a non-empty value that
\* is not a string) or object (an object whose "prompt" is the string prompt)
HookInput(k, prompt) == [kind |-> k, prompt |-> prompt]
NoneValue == [kind |-> "none", prompt |-> <<>>]

read_stdin_json(raw) ==
    IF raw.kind \in {"empty", "nonjson"} THEN NoneValue ELSE raw

\* length of the longest run of token chunks of s starting at position i
RECURSIVE RunLen(_, _)
RunLen(s, i) ==
    IF i > Len(s) \/ ~IsTokenChunk(s[i]) THEN 0 ELSE 1 + RunLen(s, i + 1)

\* position of the first "/" of s, 0 if none
RECURSIVE FirstSlash(_, _)
FirstSlash(s, i) ==
    IF i > Len(s) THEN 0 ELSE IF s[i] = "/" THEN i ELSE FirstSlash(s, i + 1)

\* mutant: the pattern is searched anywhere in the prompt (re.search)
extract_command_search(prompt) ==
    LET i == FirstSlash(prompt, 1)
    IN  IF i = 0 THEN <<>> ELSE SubSeq(prompt, i + 1, i + RunLen(prompt, i + 1))

\* re.match(r'^/([a-zA-Z0-9_:-]+)', prompt); <<>> is None
extract_command(prompt) ==
    IF prompt = <<>> THEN <<>>
    ELSE IF prompt[1] # "/" THEN <<>>
    ELSE SubSeq(prompt, 2, 1 + RunLen(prompt, 2))

\* mutant: the alias table is not consulted
resolve_alias_identity(command) == command

resolve_alias(command) ==
    IF command \in DOMAIN ALIASES THEN ALIASES[command] ELSE command

\* position of the first ":" of s, 0 if none
RECURSIVE FirstColon(_, _)
FirstColon(s, i) ==
    IF i > Len(s) THEN 0 ELSE IF s[i] = ":" THEN i ELSE FirstColon(s, i + 1)

plugin_part(nm) ==
    IF FirstColon(nm, 1) = 0 THEN nm ELSE SubSeq(nm, 1, FirstColon(nm, 1) - 1)
skill_part(nm) ==
    IF FirstColon(nm, 1) = 0 THEN <<>> ELSE SubSeq(nm, FirstColon(nm, 1) + 1, Len(nm))

check_skill_exists(f, nm) ==
    \/ nm \in f.commands
    \/ nm \in f.skills
    \/ \E i \in DOMAIN f.plugins :
          LET e == f.plugins[i]
          IN  /\ e.name = plugin_part(nm)
              /\ \/ e.root
                 \/ skill_part(nm) # <<>> /\ skill_part(nm) \in e.skills
                 \/ plugin_part(nm) \in e.skills

\* mutant: the hook starts from the fresh structure whatever the file holds
load_stats_always_fresh(f) == EmptyStats

\* load_stats of the hook: absent or unparsable gives the fresh structure
load_stats(f) == IF f.kind = "doc" THEN f.doc ELSE EmptyStats

\* get_stats_path: lines 74-84; cfg.get on a root that is not an object raises
\* AttributeError, which line 81 does not catch; expanduser on a value that is
\* not a string raises TypeError, which it does
get_stats_path(c) ==
    IF c.kind = "nonobject" THEN Resolved("AttributeError", "none", <<>>)
    ELSE IF c.kind = "object" /\ c.statsFile \in Paths
    THEN Resolved("none", c.statsFile, <<>>)
    ELSE Resolved("none", "default", <<>>)

\* the "skills" map with one entry replaced or added
WithSkill(skills, nm, entry) ==
    [k \in DOMAIN skills \cup {nm} |-> IF k = nm THEN entry ELSE skills[k]]

SkillOf(skills, nm) == IF nm \in DOMAIN skills THEN skills[nm] ELSE NewSkill

\* mutant: lastUsed is set for a new entry only
updated_stats_stale_date(stats, nm, day) ==
    [stats EXCEPT
        !.skills = WithSkill(stats.skills, nm,
                       [SkillOf(stats.skills, nm) EXCEPT
                           !.uses = @ + 1, !.lastUsed = IF @ = 0 THEN day ELSE @]),
        !.totalUses = @ + 1,
        !.lastUpdated = day]

\* the document update_stats builds before writing it
updated_stats(stats, nm, day) ==
    [stats EXCEPT
        !.skills = WithSkill(stats.skills, nm,
                       [SkillOf(stats.skills, nm) EXCEPT
                           !.uses = @ + 1, !.lastUsed = day]),
        !.totalUses = @ + 1,
        !.lastUpdated = day]

\* main() up to check_skill_exists: the identifier to record, <<>> when the
\* invocation returns without effect
hook_command(f, raw) ==
    LET input_data == read_stdin_json(raw)
        command == extract_command(input_data.prompt)
    IN  IF input_data = NoneValue THEN <<>>
        ELSE IF input_data.prompt = <<>> THEN <<>>
        ELSE IF command = <<>> THEN <<>>
        ELSE IF ~check_skill_exists(f, resolve_alias(command)) THEN <<>>
        ELSE resolve_alias(command)

\* ---- pure functions of the CLI ----
calc_level(uses) == IF uses > 0 THEN Max(1, IntSqrt(uses * 10)) ELSE 0

\* _load_config and STATS_FILE: lines 36-54, run when the module is loaded;
\* cfg.items() on a root that is not an object raises AttributeError; a value
\* that is not a string is skipped; Path("").resolve() is the working directory
MalformedWarning == <<"Malformed config", "Using default settings.">>

_load_config(c) ==
    IF c.kind = "nonobject" THEN Resolved("AttributeError", "none", <<>>)
    ELSE IF c.kind = "unparsable" THEN Resolved("none", "default", MalformedWarning)
    ELSE IF c.kind = "object" /\ c.statsFile \in Paths
    THEN Resolved("none", c.statsFile, <<>>)
    ELSE IF c.kind = "object" /\ c.statsFile = "empty"
    THEN Resolved("none", "cwd", <<>>)
    ELSE Resolved("none", "default", <<>>)

\* skillbook_dashboard.py, _load_config and STATS_FILE: lines 20-48
dashboard_load_config(c) ==
    IF c.kind = "nonobject" THEN Resolved("AttributeError", "none", <<>>)
    ELSE IF c.kind = "unparsable" THEN Resolved("none", "default", MalformedWarning)
    ELSE IF c.kind = "object" /\ c.statsFile \in Paths
    THEN Resolved("none", c.statsFile, <<>>)
    ELSE IF c.kind = "object" /\ c.statsFile = "empty"
    THEN Resolved("none", "cwd", <<>>)
    ELSE Resolved("none", "default", <<>>)

\* load_stats of the CLI when the file parses or is absent
cli_load_stats(f, day) ==
    IF f.kind = "doc" THEN f.doc ELSE [EmptyStats EXCEPT !.lastUpdated = day]

\* mutant: the toggled entry is built anew instead of updated
pin_skill_fresh_entry(stats, nm) ==
    [stats EXCEPT
        !.skills = WithSkill(stats.skills, nm,
                       [NewSkill EXCEPT !.pinned = ~SkillOf(stats.skills, nm).pinned])]

\* mutant: the skill is pinned instead of toggled
pin_skill_sets_pinned(stats, nm) ==
    [stats EXCEPT
        !.skills = WithSkill(stats.skills, nm,
                       [SkillOf(stats.skills, nm) EXCEPT !.pinned = TRUE])]

\* lines 356-359 of pin_skill
pin_skill(stats, nm) ==
    [stats EXCEPT
        !.skills = WithSkill(stats.skills, nm,
                       [SkillOf(stats.skills, nm) EXCEPT !.pinned = ~@])]

\* mutant: totalUses is not incremented
increment_usage_no_total(stats, nm, day) ==
    [stats EXCEPT
        !.skills = WithSkill(stats.skills, nm,
                       [SkillOf(stats.skills, nm) EXCEPT
                           !.uses = @ + 1, !.lastUsed = day])]

increment_usage(stats, nm, day) ==
    [stats EXCEPT
        !.skills = WithSkill(stats.skills, nm,
                       [SkillOf(stats.skills, nm) EXCEPT
                           !.uses = @ + 1, !.lastUsed = day]),
        !.totalUses = @ + 1]

\* number of characters of a chunk sequence
RECURSIVE StrLen(_)
StrLen(s) ==
    IF s = <<>> THEN 0
    ELSE (IF Head(s) \in {"/", " ", ":"} THEN 1
          ELSE IF Head(s) = "wrap" THEN 4 ELSE 12) + StrLen(Tail(s))

RECURSIVE EntriesLen(_, _)
EntriesLen(skills, ids) ==
    IF ids = {} THEN 0
    ELSE LET k == CHOOSE x \in ids : TRUE
         IN  79 + StrLen(k)
             + (IF skills[k].lastUsed = 0 THEN 0 ELSE 8)
             + (IF skills[k].pinned THEN 0 ELSE 1)
             + EntriesLen(skills, ids \ {k})

\* number of characters json.dump(stats, f, indent=2) writes (counters < 10)
SerLen(doc) ==
    52 + (IF doc.lastUpdated = 0 THEN 0 ELSE 31)
       + (IF DOMAIN doc.skills = {} THEN 0 ELSE 2)
       + EntriesLen(doc.skills, DOMAIN doc.skills)

\* ---- the skill catalog: scan_all_skills and the dashboard's scan_skills ----
\* a catalog maps identifiers to entries; an entry names its source and, for a
\* plugin skill, the install it was found in (its "plugin" and "path" keys)
Entry(src, i) == [source |-> src, at |-> i]

FromSet(ids, src) == [k \in ids |-> Entry(src, 0)]

\* lines 178-179: the identifier of the skill sk of plugin base_plugin
full_name(base_plugin, sk) ==
    IF sk # base_plugin THEN base_plugin \o <<":">> \o sk ELSE base_plugin

\* scan_plugin_skills from install i on: the skills directory is assigned
\* (lines 182-188), the root SKILL.md is added if the identifier is new
\* (lines 194-201)
RECURSIVE ScanInstalls(_, _, _)
ScanInstalls(pl, i, skills) ==
    IF i > Len(pl) THEN skills
    ELSE LET e == pl[i]
             found == {full_name(e.name, sk) : sk \in e.skills}
             assigned == [k \in DOMAIN skills \cup found |->
                             IF k \in found THEN Entry("plugin", i) ELSE skills[k]]
             withRoot == IF e.root /\ e.name \notin DOMAIN assigned
                         THEN [k \in DOMAIN assigned \cup {e.name} |->
                                  IF k = e.name THEN Entry("plugin", i) ELSE assigned[k]]
                         ELSE assigned
         IN  ScanInstalls(pl, i + 1, withRoot)

scan_local_skills(f) == FromSet(f.skills, "local")
scan_commands(f) == FromSet(f.commands, "command")
scan_plugin_skills(f) == ScanInstalls(f.plugins, 1, <<>>)
scan_project_skills(f) == FromSet({<<"project", ":">> \o sk : sk \in f.project}, "project")

\* "if name not in all_skills: all_skills[name] = info"
Merged(all_skills, found) ==
    [k \in DOMAIN all_skills \cup DOMAIN found |->
        IF k \in DOMAIN all_skills THEN all_skills[k] ELSE found[k]]

scan_all_skills(f) ==
    Merged(Merged(Merged(scan_local_skills(f), scan_commands(f)),
                  scan_plugin_skills(f)),
           scan_project_skills(f))

\* skillbook_dashboard.py: the same without the project's skills
scan_skills(f) ==
    Merged(Merged(scan_local_skills(f), scan_commands(f)), scan_plugin_skills(f))

\* ---- the dashboard's and the CLI's display functions ----
\* skillbook_dashboard.py, calc_level
dashboard_calc_level(uses) == IF uses > 0 THEN Max(1, IntSqrt(uses * 10)) ELSE 0

\* a string of n stars
RECURSIVE Stars(_)
Stars(n) == IF n = 0 THEN <<>> ELSE <<"star">> \o Stars(n - 1)

\* mutant: the lower bound of a tier belongs to the tier below
get_rarity_exclusive(uses) ==
    IF uses > 100 THEN Stars(5)
    ELSE IF uses > 50 THEN Stars(4)
    ELSE IF uses > 20 THEN Stars(3)
    ELSE IF uses > 5 THEN Stars(2)
    ELSE IF uses > 1 THEN Stars(1)
    ELSE <<"unknown">>

\* skillbook.py, get_rarity: a string of stars, or a question mark
get_rarity(uses) ==
    IF uses >= 100 THEN Stars(5)
    ELSE IF uses >= 50 THEN Stars(4)
    ELSE IF uses >= 20 THEN Stars(3)
    ELSE IF uses >= 5 THEN Stars(2)
    ELSE IF uses >= 1 THEN Stars(1)
    ELSE <<"unknown">>

\* skillbook_dashboard.py, get_rarity_stars: the number of stars
get_rarity_stars(uses) ==
    IF uses >= 100 THEN 5
    ELSE IF uses >= 50 THEN 4
    ELSE IF uses >= 20 THEN 3
    ELSE IF uses >= 5 THEN 2
    ELSE IF uses >= 1 THEN 1
    ELSE 0

\* ---- usage counts beyond 32 bits ----
\* Python integers are unbounded, and uses is whatever number the stats file
\* holds.  A natural number is written here as the sequence of its digits in
\* base Radix, least significant first, without leading zeros (<<>> is 0).
Radix == 10000

RECURSIVE Trim(_)
Trim(a) == IF a # <<>> /\ a[Len(a)] = 0 THEN Trim(SubSeq(a, 1, Len(a) - 1)) ELSE a

RECURSIVE Wide(_)
Wide(n) == IF n = 0 THEN <<>> ELSE <<n % Radix>> \o Wide(n \div Radix)

Digit(a, i) == IF i <= Len(a) THEN a[i] ELSE 0

RECURSIVE AddFrom(_, _, _, _)
AddFrom(a, b, i, carry) ==
    IF i > Len(a) /\ i > Len(b) THEN Wide(carry)
    ELSE LET sum == Digit(a, i) + Digit(b, i) + carry
         IN  <<sum % Radix>> \o AddFrom(a, b, i + 1, sum \div Radix)

WideAdd(a, b) == AddFrom(a, b, 1, 0)

\* a times m, for 0 <= m <= Radix
RECURSIVE TimesFrom(_, _, _, _)
TimesFrom(a, m, i, carry) ==
    IF i > Len(a) THEN Wide(carry)
    ELSE LET prod == a[i] * m + carry
         IN  <<prod % Radix>> \o TimesFrom(a, m, i + 1, prod \div Radix)

WideTimes(a, m) == Trim(TimesFrom(a, m, 1, 0))

RECURSIVE WideMul(_, _)
WideMul(a, b) ==
    IF a = <<>> \/ b = <<>> THEN <<>>
    ELSE Trim(WideAdd(WideTimes(a, b[1]), <<0>> \o WideMul(a, Tail(b))))

RECURSIVE LessFrom(_, _, _)
LessFrom(a, b, i) ==
    IF i = 0 THEN FALSE
    ELSE IF a[i] # b[i] THEN a[i] < b[i]
    ELSE LessFrom(a, b, i - 1)

WideLess(a, b) == IF Len(a) # Len(b) THEN Len(a) < Len(b) ELSE LessFrom(a, b, Len(a))

\* a - 1, for a > 0
RECURSIVE WidePred(_)
WidePred(a) ==
    IF a[1] > 0 THEN Trim([a EXCEPT ![1] = @ - 1])
    ELSE <<Radix - 1>> \o WidePred(Tail(a))

\* 2^t, for t up to 60
Pow2(t) == WideMul(Wide(2 ^ (t \div 2)), Wide(2 ^ (t - t \div 2)))

RECURSIVE Log2(_)
Log2(k) == IF k < 2 THEN 0 ELSE 1 + Log2(k \div 2)

\* ---- math.sqrt on IEEE doubles ----
\* a double has MantissaBits significant bits; every integer below
\* 2^MantissaBits is a double, and int(math.sqrt(x)) is below 2^HalfBits then
MantissaBits == 53
HalfBits == 27

\* the largest k with k * k <= x, by bisection: lo * lo <= x < hi * hi
RECURSIVE Bisect(_, _, _)
Bisect(x, lo, hi) ==
    IF hi - lo <= 1 THEN lo
    ELSE LET mid == (lo + hi) \div 2
         IN  IF WideLess(x, WideMul(Wide(mid), Wide(mid)))
             THEN Bisect(x, lo, mid)
             ELSE Bisect(x, mid, hi)

FloorSqrt(x) == Bisect(x, 0, 2 ^ HalfBits)

\* int(math.sqrt(x)) for a natural x below 2^MantissaBits.  math.sqrt returns
\* the double nearest to the real square root r, and k <= r < k + 1 for
\* k = FloorSqrt(x).  The doubles between k and k + 1 are 2 * 2^-t apart,
\* t = MantissaBits - Log2(k): r is rounded up to k + 1 exactly when it is
\* above k + 1 - 2^-t, that is when x * 4^t > ((k + 1) * 2^t - 1)^2.
int_math_sqrt(x) ==
    IF x = <<>> THEN 0
    ELSE LET k == FloorSqrt(x)
             scale == Pow2(MantissaBits - Log2(k))
             below == WidePred(WideMul(Wide(k + 1), scale))
         IN  IF WideLess(WideMul(below, below), WideMul(x, WideMul(scale, scale)))
             THEN k + 1
             ELSE k

\* calculate_level / calc_level on a count written in digits
calculate_level_wide(uses) ==
    IF uses = <<>> THEN 0 ELSE Max(1, int_math_sqrt(WideTimes(uses, 10)))

\* ---- inputs ----
HookInputs ==
    {HookInput(k, <<>>) : k \in {"empty", "nonjson", "nonobject"}}
        \cup {HookInput("object", pr) : pr \in Prompts}

\* the prompts and CLI command lines used while invocations run concurrently
StoreInputs == {HookInput("object", <<"/", "wrap">>),
                HookInput("object", <<"/", "session-wrap">>)}
CliArgs == {SESSION_WRAP_WRAP, SESSION_WRAP}
StoreCommands == {<<"use", SESSION_WRAP>>, <<"pin", SESSION_WRAP_WRAP>>}

InitDocs ==
    {[EmptyStats EXCEPT
        !.totalUses = 1, !.lastUpdated = 1,
        !.skills = WithSkill(<<>>, SESSION_WRAP_WRAP,
                       [uses |-> 1, lastUsed |-> 1, pinned |-> TRUE])]}

InitFiles == {Absent} \cup {Complete(d, 0, 0) : d \in InitDocs}

\* a stats file an earlier CLI invocation left truncated is possible too
OneFiles == InitFiles \cup {Torn(0, 0, 0)}

InitLocal ==
    /\ kind = [p \in Procs |-> "hook"]
    /\ id = [p \in Procs |-> 0]
    /\ input = [p \in Procs |-> HookInput("empty", <<>>)]
    /\ path = [p \in Procs |-> "none"]
    /\ err = [p \in Procs |-> <<>>]
    /\ name = [p \in Procs |-> <<>>]
    /\ base = [p \in Procs |-> EmptyStats]
    /\ upd = [p \in Procs |-> EmptyStats]
    /\ fd = [p \in Procs |-> 0]
    /\ levels = [p \in Procs |-> <<0, 0>>]
    /\ out = [p \in Procs |-> <<>>]
    /\ fault = [p \in Procs |-> "none"]
    /\ failed = [p \in Procs |-> "none"]
    /\ effects = [p \in Procs |-> {}]

Init ==
    /\ today = 1
    /\ fs = FullFs
    /\ config = NoConfig
    /\ file \in InitFiles
    /\ dirExists = TRUE
    /\ temps = {}
    /\ started = 0
    /\ pc = [p \in Procs |-> "idle"]
    /\ InitLocal
    /\ InitCalc
    /\ InitViews
    /\ InitInst

\* one invocation alone, on any input and any set of installed skills
InitOne ==
    /\ today = 1
    /\ fs \in FsStates
    /\ config = NoConfig
    /\ file \in OneFiles
    /\ dirExists \in BOOLEAN
    /\ file.kind # "absent" => dirExists
    /\ temps = {}
    /\ started = MaxInvocations - 1
    /\ pc = [p \in Procs |-> IF p = 1 THEN "idle" ELSE "off"]
    /\ InitLocal
    /\ InitCalc
    /\ InitViews
    /\ InitInst

\* one invocation alone, on any configuration file and any stats file
ConfigInputs ==
    StoreInputs \cup {HookInput(k, <<>>) : k \in {"empty", "nonjson", "nonobject", "nonstring"}}

\* a document whose recorded skill does not gain a level with the next use
SteadyDoc ==
    [EmptyStats EXCEPT
        !.totalUses = 5, !.lastUpdated = 1,
        !.skills = WithSkill(<<>>, SESSION_WRAP_WRAP,
                       [uses |-> 5, lastUsed |-> 1, pinned |-> FALSE])]

ConfigFiles == OneFiles \cup {NonObject, Complete(SteadyDoc, 0, 0)}

InitConfig ==
    /\ today = 1
    /\ fs = FullFs
    /\ config \in Configs
    /\ file \in ConfigFiles
    /\ dirExists \in BOOLEAN
    /\ file.kind # "absent" => dirExists
    /\ temps = {}
    /\ started = MaxInvocations - 1
    /\ pc = [p \in Procs |-> IF p = 1 THEN "idle" ELSE "off"]
    /\ InitLocal
    /\ InitCalc
    /\ InitViews
    /\ InitInst

\* slots are taken in order
Startable(p) ==
    /\ pc[p] \in {"idle", "done", "crashed"}
    /\ started < MaxInvocations
    /\ \A q \in Procs : q < p => pc[q] # "idle"

\* a new invocation takes slot p
Fresh(p, k, arg) ==
    /\ started' = started + 1
    /\ kind' = [kind EXCEPT ![p] = k]
    /\ id' = [id EXCEPT ![p] = started + 1]
    /\ input' = [input EXCEPT ![p] = arg]
    /\ fd' = [fd EXCEPT ![p] = 0]
    /\ out' = [out EXCEPT ![p] = <<>>]
    /\ failed' = [failed EXCEPT ![p] = "none"]
    /\ effects' = [effects EXCEPT ![p] = {}]

\* ---- the hook: main() ----
\* lines 240-258 and 261, then update_stats up to the call of write_stats_atomic
HookBegin(p, raw) ==
    /\ Startable(p)
    /\ Fresh(p, "hook", raw)
    /\ err' = [err EXCEPT ![p] = <<>>]
    /\ LET command == hook_command(fs, raw)
           where == get_stats_path(config)
           stats == load_stats(file)
           Return(exc, nm, loc) ==
               /\ fault' = [fault EXCEPT ![p] = exc]
               /\ pc' = [pc EXCEPT ![p] = "done"]
               /\ name' = [name EXCEPT ![p] = nm]
               /\ path' = [path EXCEPT ![p] = loc]
               /\ UNCHANGED <<base, upd, levels>>
       IN  IF raw.kind = "nonobject"
           THEN Return("AttributeError", <<>>, "none")    \* line 244
           ELSE IF raw.kind = "nonstring"
           THEN Return("TypeError", <<>>, "none")         \* line 54
           ELSE IF command = <<>>
           THEN Return("none", <<>>, "none")
           ELSE IF where.raised # "none"
           THEN Return(where.raised, command, "none")     \* line 78
           ELSE IF file.kind = "nonobject"
           THEN Return("AttributeError", command, where.loc)  \* line 209
           ELSE /\ fault' = [fault EXCEPT ![p] = "none"]
                /\ pc' = [pc EXCEPT ![p] = "mkdir"]
                /\ name' = [name EXCEPT ![p] = command]
                /\ path' = [path EXCEPT ![p] = where.loc]
                /\ base' = [base EXCEPT ![p] = stats]
                /\ upd' = [upd EXCEPT ![p] = updated_stats(stats, command, today)]
                /\ levels' = [levels EXCEPT ![p] =
                      <<calculate_level(SkillOf(stats.skills, command).uses),
                        calculate_level(SkillOf(stats.skills, command).uses + 1)>>]
    /\ UNCHANGED <<today, env, dirExists, file, temps>>

\* mutant: main() has no handler
main_catches_nothing(exc) == FALSE

\* lines 264-267: main() catches OSError and returns
main_catches(exc) == exc = "OSError"

\* the save raises exc; it leaves main() unless main() catches it
Fail(p, exc, caught) ==
    /\ failed' = [failed EXCEPT ![p] = exc]
    /\ fault' = [fault EXCEPT ![p] = IF caught THEN "none" ELSE exc]
    /\ pc' = [pc EXCEPT ![p] = "done"]

\* ---- the hook: write_stats_atomic ----
\* line 180: stats_path.parent.mkdir(parents=True, exist_ok=True)
HookMkdir(p) ==
    /\ kind[p] = "hook" /\ pc[p] = "mkdir"
    /\ dirExists' = TRUE
    /\ effects' = [effects EXCEPT ![p] = IF dirExists THEN @ ELSE @ \cup {"mkdir"}]
    /\ pc' = [pc EXCEPT ![p] = "mkstemp"]
    /\ UNCHANGED <<today, env, file, temps, started>>
    /\ UNCHANGED <<kind, id, input, path, err, name, base, upd, fd, levels, out, fault, failed>>

HookMkdirFails(p) ==
    /\ kind[p] = "hook" /\ pc[p] = "mkdir"
    /\ ~dirExists
    /\ Fail(p, "OSError", main_catches("OSError"))
    /\ UNCHANGED shared
    /\ UNCHANGED <<kind, id, input, path, err, name, base, upd, fd, levels, out, effects>>

\* lines 183-187: tempfile.mkstemp in the stats file's directory
HookMkstemp(p) ==
    /\ kind[p] = "hook" /\ pc[p] = "mkstemp"
    /\ temps' = temps \cup {id[p]}
    /\ effects' = [effects EXCEPT ![p] = @ \cup {"mkstemp"}]
    /\ pc' = [pc EXCEPT ![p] = "dump"]
    /\ UNCHANGED <<today, env, dirExists, file, started>>
    /\ UNCHANGED <<kind, id, input, path, err, name, base, upd, fd, levels, out, fault, failed>>

HookMkstempFails(p) ==
    /\ kind[p] = "hook" /\ pc[p] = "mkstemp"
    /\ Fail(p, "OSError", main_catches("OSError"))
    /\ UNCHANGED shared
    /\ UNCHANGED <<kind, id, input, path, err, name, base, upd, fd, levels, out, effects>>

\* lines 189-191: the document is written to the temporary file and closed
HookDump(p) ==
    /\ kind[p] = "hook" /\ pc[p] = "dump"
    /\ pc' = [pc EXCEPT ![p] = "replace"]
    /\ UNCHANGED shared
    /\ UNCHANGED <<kind, id, input, path, err, name, base, upd, fd, levels, out, fault, failed, effects>>

\* the exception classes a failing write raises: OSError (disk full, I/O
\* error) or another one (UnicodeEncodeError on a lone surrogate, MemoryError)
WriteErrors == {"OSError", "ValueError"}

\* lines 193-199: only OSError reaches the handler that unlinks the temp file
cleans_up(exc) == exc = "OSError"

HookDumpFails(p, exc) ==
    /\ kind[p] = "hook" /\ pc[p] = "dump"
    /\ IF cleans_up(exc)
       THEN /\ temps' = temps \ {id[p]}
            /\ effects' = [effects EXCEPT ![p] = @ \cup {"unlink"}]
       ELSE UNCHANGED <<temps, effects>>
    /\ Fail(p, exc, main_catches(exc))
    /\ UNCHANGED <<today, env, dirExists, file, started>>
    /\ UNCHANGED <<kind, id, input, path, err, name, base, upd, fd, levels, out>>

\* mutant: the increment is applied to the document the file holds at the
\* time of the rename (as under a lock held from load to rename)
HookReplaceMerging(p) ==
    /\ kind[p] = "hook" /\ pc[p] = "replace"
    /\ file' = Complete(updated_stats(load_stats(file), name[p], today), id[p], id[p])
    /\ temps' = temps \ {id[p]}
    /\ effects' = [effects EXCEPT ![p] = @ \cup {"replace"}]
    /\ pc' = [pc EXCEPT ![p] = "notify"]
    /\ UNCHANGED <<today, env, dirExists, started>>
    /\ UNCHANGED <<kind, id, input, path, err, name, base, upd, fd, levels, out, fault, failed>>

\* line 192: os.replace(tmp_path, stats_path)
HookReplace(p) ==
    /\ kind[p] = "hook" /\ pc[p] = "replace"
    /\ file' = Complete(upd[p], id[p], id[p])
    /\ temps' = temps \ {id[p]}
    /\ effects' = [effects EXCEPT ![p] = @ \cup {"replace"}]
    /\ pc' = [pc EXCEPT ![p] = "notify"]
    /\ UNCHANGED <<today, env, dirExists, started>>
    /\ UNCHANGED <<kind, id, input, path, err, name, base, upd, fd, levels, out, fault, failed>>

HookReplaceFails(p) ==
    /\ kind[p] = "hook" /\ pc[p] = "replace"
    /\ temps' = temps \ {id[p]}
    /\ effects' = [effects EXCEPT ![p] = @ \cup {"unlink"}]
    /\ Fail(p, "OSError", main_catches("OSError"))
    /\ UNCHANGED <<today, env, dirExists, file, started>>
    /\ UNCHANGED <<kind, id, input, path, err, name, base, upd, fd, levels, out>>

\* lines 270-275: the level-up notification
LevelUp(cmd, old, new) == [command |-> cmd, old |-> old, new |-> new]

\* mutant: the line is printed whether or not a level was gained
HookNotifyAlways(p) ==
    /\ kind[p] = "hook" /\ pc[p] = "notify"
    /\ out' = [out EXCEPT ![p] = Append(@, LevelUp(name[p], levels[p][1], levels[p][2]))]
    /\ pc' = [pc EXCEPT ![p] = "done"]
    /\ UNCHANGED shared
    /\ UNCHANGED <<kind, id, input, path, err, name, base, upd, fd, levels, fault, failed, effects>>

HookNotify(p) ==
    /\ kind[p] = "hook" /\ pc[p] = "notify"
    /\ out' = [out EXCEPT ![p] =
          IF levels[p][2] > levels[p][1]
          THEN Append(@, LevelUp(name[p], levels[p][1], levels[p][2]))
          ELSE @]
    /\ pc' = [pc EXCEPT ![p] = "done"]
    /\ UNCHANGED shared
    /\ UNCHANGED <<kind, id, input, path, err, name, base, upd, fd, levels, fault, failed, effects>>

\* ---- the CLI: main() with "use <id>" or "pin <id>" ----
StatusLine(cmd) == [command |-> cmd, old |-> 0, new |-> 0]

\* lines 417 and 453-463, then pin_skill / increment_usage up to save_stats
CliBegin(p, cmd, arg) ==
    /\ Startable(p)
    /\ Fresh(p, cmd, arg)
    /\ name' = [name EXCEPT ![p] = arg]
    /\ LET where == _load_config(config)
           stats == cli_load_stats(file, today)
           Raise(exc) ==
               /\ fault' = [fault EXCEPT ![p] = exc]
               /\ pc' = [pc EXCEPT ![p] = "done"]
               /\ UNCHANGED <<base, upd, levels>>
       IN  /\ err' = [err EXCEPT ![p] = where.warn]
           /\ path' = [path EXCEPT ![p] = where.loc]
           /\ IF where.raised # "none"
              THEN Raise(where.raised)          \* line 41, before main() runs
              ELSE IF where.loc = "cwd"
              THEN Raise("OSError")             \* line 75: open() of a directory
              ELSE IF file.kind = "torn"
              THEN Raise("JSONDecodeError")     \* line 76
              ELSE IF file.kind = "nonobject"
              THEN Raise("AttributeError")      \* line 420
              ELSE /\ fault' = [fault EXCEPT ![p] = "none"]
                   /\ pc' = [pc EXCEPT ![p] = "open"]
                   /\ base' = [base EXCEPT ![p] = stats]
                   /\ upd' = [upd EXCEPT ![p] =
                         IF cmd = "pin" THEN pin_skill(stats, arg)
                         ELSE increment_usage(stats, arg, today)]
                   /\ levels' = [levels EXCEPT ![p] =
                         IF cmd = "pin" THEN <<0, 0>>
                         ELSE <<calc_level(SkillOf(stats.skills, arg).uses),
                                calc_level(SkillOf(stats.skills, arg).uses + 1)>>]
    /\ UNCHANGED <<today, env, dirExists, file, temps>>

\* save_stats lines 82-84: open(STATS_FILE, "w") truncates the file in place
CliOpen(p) ==
    /\ kind[p] \in {"use", "pin"} /\ pc[p] = "open"
    /\ upd' = [upd EXCEPT ![p].lastUpdated = today]
    /\ dirExists' = TRUE
    /\ LET ino == IF file.kind = "absent" THEN id[p] ELSE file.ino
       IN  /\ file' = Torn(ino, 0, id[p])
           /\ fd' = [fd EXCEPT ![p] = ino]
    /\ effects' = [effects EXCEPT ![p] = @ \cup {"truncate"}]
    /\ pc' = [pc EXCEPT ![p] = "write"]
    /\ UNCHANGED <<today, env, temps, started>>
    /\ UNCHANGED <<kind, id, input, path, err, name, base, levels, out, fault, failed>>

CliOpenFails(p) ==
    /\ kind[p] \in {"use", "pin"} /\ pc[p] = "open"
    /\ Fail(p, "OSError", FALSE)
    /\ UNCHANGED shared
    /\ UNCHANGED <<kind, id, input, path, err, name, base, upd, fd, levels, out, effects>>

\* what the open inode holds after the document is written at offset 0
Overwrite(f, doc, w) ==
    LET cur == IF f.kind = "doc" THEN SerLen(f.doc) ELSE f.len
    IN  IF SerLen(doc) >= cur THEN Complete(doc, f.ino, w) ELSE Torn(f.ino, cur, w)

\* save_stats line 85 and the close of the file, then the print of main()
CliWrite(p) ==
    /\ kind[p] \in {"use", "pin"} /\ pc[p] = "write"
    /\ file' = IF file.ino = fd[p] THEN Overwrite(file, upd[p], id[p]) ELSE file
    /\ effects' = [effects EXCEPT ![p] = @ \cup {"write"}]
    /\ out' = [out EXCEPT ![p] =
          IF kind[p] = "use" /\ levels[p][2] > levels[p][1]
          THEN Append(@, LevelUp(name[p], levels[p][1], levels[p][2]))
          ELSE Append(@, StatusLine(name[p]))]
    /\ pc' = [pc EXCEPT ![p] = "done"]
    /\ UNCHANGED <<today, env, dirExists, temps, started>>
    /\ UNCHANGED <<kind, id, input, path, err, name, base, upd, fd, levels, fault, failed>>

CliWriteFails(p) ==
    /\ kind[p] \in {"use", "pin"} /\ pc[p] = "write"
    /\ Fail(p, "OSError", FALSE)
    /\ UNCHANGED shared
    /\ UNCHANGED <<kind, id, input, path, err, name, base, upd, fd, levels, out, effects>>

\* ---- the CLI: main() with a display command ----
\* terminal (the listing), stats, pinned, used, and a category name
DisplayCommands == {"terminal", "stats", "pinned", "used", "category"}

\* what load_stats and the first use of its result do on the stats file:
\* lines 74-76 and 420 of skillbook.py, 91-93 and 324 of the dashboard
LoadFault(where, f) ==
    IF where.raised # "none" THEN where.raised
    ELSE IF where.loc = "cwd" THEN "OSError"
    ELSE IF f.kind = "torn" THEN "JSONDecodeError"
    ELSE IF f.kind = "nonobject" THEN "AttributeError"
    ELSE "none"

\* main() lines 417-418: load_stats() and scan_all_skills()
ShowBegin(p, cmd) ==
    /\ Startable(p)
    /\ Fresh(p, cmd, <<>>)
    /\ name' = [name EXCEPT ![p] = <<>>]
    /\ LET where == _load_config(config)
       IN  /\ err' = [err EXCEPT ![p] = where.warn]
           /\ path' = [path EXCEPT ![p] = where.loc]
           /\ fault' = [fault EXCEPT ![p] = LoadFault(where, file)]
           /\ pc' = [pc EXCEPT ![p] = IF LoadFault(where, file) = "none" THEN "print" ELSE "done"]
           /\ base' = [base EXCEPT ![p] =
                 IF LoadFault(where, file) = "none" THEN cli_load_stats(file, today) ELSE @]
    /\ UNCHANGED <<upd, levels>>
    /\ UNCHANGED <<today, env, dirExists, file, temps>>

\* mutant: the display command saves the document it loaded
ShowPrintSaving(p) ==
    /\ kind[p] \in DisplayCommands /\ pc[p] = "print"
    /\ out' = [out EXCEPT ![p] = Append(@, StatusLine(kind[p]))]
    /\ file' = Complete(base[p], id[p], id[p])
    /\ pc' = [pc EXCEPT ![p] = "done"]
    /\ UNCHANGED <<today, env, dirExists, temps, started>>
    /\ UNCHANGED <<kind, id, input, path, err, name, base, upd, fd, levels, fault, failed, effects>>

\* main() lines 465-515: the summary or the listing is printed
ShowPrint(p) ==
    /\ kind[p] \in DisplayCommands /\ pc[p] = "print"
    /\ out' = [out EXCEPT ![p] = Append(@, StatusLine(kind[p]))]
    /\ pc' = [pc EXCEPT ![p] = "done"]
    /\ UNCHANGED shared
    /\ UNCHANGED <<kind, id, input, path, err, name, base, upd, fd, levels, fault, failed, effects>>

\* ---- the dashboard: generate_dashboard() ----
\* lines 320-321: load_stats() and scan_skills()
DashboardBegin(p) ==
    /\ Startable(p)
    /\ Fresh(p, "dashboard", <<>>)
    /\ name' = [name EXCEPT ![p] = <<>>]
    /\ LET where == dashboard_load_config(config)
       IN  /\ err' = [err EXCEPT ![p] = where.warn]
           /\ path' = [path EXCEPT ![p] = where.loc]
           /\ fault' = [fault EXCEPT ![p] = LoadFault(where, file)]
           /\ pc' = [pc EXCEPT ![p] = IF LoadFault(where, file) = "none" THEN "generate" ELSE "done"]
           /\ base' = [base EXCEPT ![p] =
                 IF LoadFault(where, file) = "none" THEN cli_load_stats(file, today) ELSE @]
    /\ UNCHANGED <<upd, levels>>
    /\ UNCHANGED <<today, env, dirExists, file, temps>>

\* lines 1148-1152 and 1155-1156: OUTPUT_DIR (by default ~/.claude/skillbook)
\* is made with its parents, dashboard.html is written and its path printed
DashboardWrite(p) ==
    /\ kind[p] = "dashboard" /\ pc[p] = "generate"
    /\ dirExists' = (dirExists \/ path[p] = "default")
    /\ effects' = [effects EXCEPT ![p] = @ \cup {"mkdir_output", "write_dashboard"}]
    /\ out' = [out EXCEPT ![p] = Append(@, StatusLine("dashboard.html"))]
    /\ pc' = [pc EXCEPT ![p] = "done"]
    /\ UNCHANGED <<today, env, file, temps, started>>
    /\ UNCHANGED <<kind, id, input, path, err, name, base, upd, fd, levels, fault, failed>>

\* ---- the environment ----
\* the process of an invocation is killed
Crash(p) ==
    /\ pc[p] \notin {"idle", "done", "crashed", "off"}
    /\ pc' = [pc EXCEPT ![p] = "crashed"]
    /\ UNCHANGED shared
    /\ UNCHANGED <<kind, id, input, path, err, name, base, upd, fd, levels, out, fault, failed, effects>>

\* midnight passes
Tick ==
    /\ today < MaxDay
    /\ today' = today + 1
    /\ UNCHANGED <<env, dirExists, file, temps, started>>
    /\ UNCHANGED local

\* the steps of an invocation that meets no error
HookRuns(p) ==
    \/ HookMkdir(p)
    \/ HookMkstemp(p)
    \/ HookDump(p)
    \/ HookReplace(p)
    \/ HookNotify(p)

CliRuns(p) ==
    \/ CliOpen(p)
    \/ CliWrite(p)

\* the steps at which the file system refuses an operation
HookFails(p) ==
    \/ HookMkdirFails(p)
    \/ HookMkstempFails(p)
    \/ \E exc \in WriteErrors : HookDumpFails(p, exc)
    \/ HookReplaceFails(p)

CliFails(p) ==
    \/ CliOpenFails(p)
    \/ CliWriteFails(p)

\* invocations of the hook and of the CLI running side by side; an invocation
\* may stop after any of its steps
Next ==
    \E p \in Procs :
        \/ \E raw \in StoreInputs : HookBegin(p, raw)
        \/ \E c \in StoreCommands : CliBegin(p, c[1], c[2])
        \/ HookRuns(p)
        \/ CliRuns(p)

Spec == Init /\ [][Next]_vars

\* two invocations of any kind, the display commands and the dashboard
\* among them, on every shape of the stats file
InitView ==
    /\ today = 1
    /\ fs = FullFs
    /\ config = NoConfig
    /\ file \in ConfigFiles
    /\ dirExists \in BOOLEAN
    /\ file.kind # "absent" => dirExists
    /\ temps = {}
    /\ started = MaxInvocations - 2
    /\ pc = [p \in Procs |-> "idle"]
    /\ InitLocal
    /\ InitCalc
    /\ InitViews
    /\ InitInst

ViewRuns(p) ==
    \/ \E cmd \in DisplayCommands : ShowBegin(p, cmd)
    \/ ShowPrint(p)
    \/ DashboardBegin(p)
    \/ DashboardWrite(p)

NextView ==
    \E p \in Procs :
        \/ \E raw \in StoreInputs : HookBegin(p, raw)
        \/ \E c \in StoreCommands : CliBegin(p, c[1], c[2])
        \/ HookRuns(p)
        \/ CliRuns(p)
        \/ ViewRuns(p)

SpecView == InitView /\ [][NextView]_vars

\* the same invocations on a stats file that holds the skill already
InitCount ==
    /\ Init
    /\ file.kind = "doc"

SpecCount == InitCount /\ [][Next]_vars

\* one invocation, with every input, every failure of the file system, the
\* process being killed, and the date changing under it
NextOne ==
    \/ \E p \in Procs :
          \/ \E raw \in HookInputs : HookBegin(p, raw)
          \/ \E cmd \in {"use", "pin"}, arg \in CliArgs : CliBegin(p, cmd, arg)
          \/ HookRuns(p)
          \/ HookFails(p)
          \/ CliRuns(p)
          \/ CliFails(p)
          \/ Crash(p)
    \/ Tick

SpecOne == InitOne /\ [][NextOne]_vars

\* ---- the level and rarity functions on their own ----
\* no invocation runs
InitIdle ==
    /\ today = 1
    /\ fs = FullFs
    /\ config = NoConfig
    /\ file = Absent
    /\ dirExists = TRUE
    /\ temps = {}
    /\ started = 0
    /\ pc = [p \in Procs |-> "off"]
    /\ InitLocal

\* counts as the stats file may hold them: uses is an integer of any size
Counts == -2 .. MaxUses
WideCounts == {<<0, 0, 0, 1>>,                 \* 1000000000000
               <<8365, 1474, 2>>,              \* 214748365
               <<5915, 2984, 3600, 450>>,      \* 450360029845915
               <<5916, 2984, 3600, 450>>}      \* 450360029845916

InitLevel ==
    /\ InitIdle
    /\ \/ count \in Counts /\ wide = <<>>
       \/ count = 0 /\ wide \in WideCounts
    /\ shown = NotShown
    /\ reported = NotReported
    /\ InitInst
    /\ InitViews

\* the three level functions are called on count
EvalLevel ==
    /\ shown.hook = -1
    /\ shown' = [shown EXCEPT !.hook = calculate_level(count),
                              !.cli = calc_level(count),
                              !.dash = dashboard_calc_level(count)]
    /\ UNCHANGED <<count, wide, reported>>
    /\ UNCHANGED <<disk, local, inst, views>>

\* the two rarity functions are called on count
EvalRarity ==
    /\ shown.stars = -1
    /\ shown' = [shown EXCEPT !.rarity = get_rarity(count),
                              !.stars = get_rarity_stars(count)]
    /\ UNCHANGED <<count, wide, reported>>
    /\ UNCHANGED <<disk, local, inst, views>>

\* the level function is called on a count beyond 32 bits
EvalWide ==
    /\ wide # <<>>
    /\ shown.wide = -1
    /\ shown' = [shown EXCEPT !.wide = calculate_level_wide(wide)]
    /\ UNCHANGED <<count, wide, reported>>
    /\ UNCHANGED <<disk, local, inst, views>>

\* one more use of the skill is recorded: update_stats lines 213, 219, 231
\* and increment_usage lines 371, 372, 375
RecordUsage ==
    /\ wide = <<>>
    /\ count >= 0 /\ count < MaxUses
    /\ count' = count + 1
    /\ reported' = [hook |-> <<calculate_level(count), calculate_level(count + 1)>>,
                    cli |-> <<calc_level(count), calc_level(count + 1)>>]
    /\ shown' = NotShown
    /\ UNCHANGED wide
    /\ UNCHANGED <<disk, local, inst, views>>

NextLevel == EvalLevel \/ EvalRarity \/ EvalWide \/ RecordUsage

SpecLevel == InitLevel /\ [][NextLevel]_vars

\* ---- the skill resolver on its own ----
\* every state of the commands directory, the skills directory, the registry
\* of installed plugins and the project's skills directory
PROJECT == <<"project">>
Installs ==
    {Install(n, r, sk) : n \in {SESSION_WRAP, PROJECT}, r \in BOOLEAN,
                         sk \in SUBSET {WRAP, SESSION_WRAP}}

RECURSIVE Registries(_)
Registries(n) ==
    IF n = 0 THEN {<<>>}
    ELSE LET shorter == Registries(n - 1)
         IN  shorter \cup {Append(r, e) : r \in {t \in shorter : Len(t) = n - 1},
                                          e \in Installs}

CatalogFs ==
    {[commands |-> c, skills |-> s, plugins |-> pl, project |-> pr] :
        c \in SUBSET {SESSION_WRAP, WRAP},
        s \in SUBSET {WRAP},
        pl \in Registries(MaxInstalls),
        pr \in SUBSET {WRAP}}

\* the commands extract_command can return: runs of token chunks
Commands == {c \in SeqsUpTo(MaxPromptLen) : c # <<>> /\ \A i \in DOMAIN c : IsTokenChunk(c[i])}

InitCatalog ==
    /\ today = 1
    /\ fs \in CatalogFs
    /\ config = NoConfig
    /\ file = Absent
    /\ dirExists = TRUE
    /\ temps = {}
    /\ started = 0
    /\ pc = [p \in Procs |-> "off"]
    /\ InitLocal
    /\ InitCalc
    /\ InitInst
    /\ InitViews

\* the CLI and the dashboard build their catalogs
ScanAll ==
    /\ ~resolver.scanned
    /\ resolver' = [resolver EXCEPT !.scanned = TRUE,
                                    !.cli = scan_all_skills(fs),
                                    !.dash = scan_skills(fs)]
    /\ UNCHANGED <<disk, local, calc, inst, located>>

\* the hook is run on every command: main() lines 252-258
CheckAll ==
    /\ ~resolver.checked
    /\ resolver' = [resolver EXCEPT
           !.checked = TRUE,
           !.known = {resolve_alias(c) : c \in {k \in Commands :
                                           check_skill_exists(fs, resolve_alias(k))}}]
    /\ UNCHANGED <<disk, local, calc, inst, located>>

NextCatalog == ScanAll \/ CheckAll

SpecCatalog == InitCatalog /\ [][NextCatalog]_vars

\* ---- the installer: the stats path ----
\* _validate_stats_path: Path(5) raises TypeError, Path("").resolve() is the
\* working directory, a path outside of the home directory raises ValueError
_validate_stats_path(sf, cwd) ==
    IF sf = "nonstring" THEN Resolved("TypeError", "none", <<>>)
    ELSE IF sf = "empty"
    THEN (IF cwd = "home" THEN Resolved("none", "cwd", <<>>)
          ELSE Resolved("ValueError", "none", <<>>))
    ELSE IF sf = "outside" THEN Resolved("ValueError", "none", <<>>)
    ELSE Resolved("none", sf, <<>>)

\* _find_stats_path: "statsFile" in cfg is False on a root that is a list;
\* ValueError is caught at line 667, TypeError is not
_find_stats_path(c, cwd) ==
    IF c.kind = "object" /\ c.statsFile # "missing"
    THEN LET v == _validate_stats_path(c.statsFile, cwd)
         IN  IF v.raised = "ValueError" THEN Resolved("none", "default", <<>>) ELSE v
    ELSE Resolved("none", "default", <<>>)

\* ---- the stats path, as the four programs resolve it ----
\* every content of the configuration file
AllConfigs == Configs \cup {Config("object", sf) : sf \in Paths}

InitResolve ==
    /\ today = 1
    /\ fs = FullFs
    /\ config \in AllConfigs
    /\ file = Absent
    /\ dirExists = TRUE
    /\ temps = {}
    /\ started = 0
    /\ pc = [p \in Procs |-> "off"]
    /\ InitLocal
    /\ InitCalc
    /\ InitInst
    /\ resolver = NotScanned
    /\ \E d \in {"home", "outside"} : located = [NotLocated EXCEPT !.cwd = d]

Resolves(who, r) ==
    /\ who \notin located.by
    /\ located' = [located EXCEPT !.by = @ \cup {who}, ![who] = r]
    /\ UNCHANGED <<disk, local, calc, inst, resolver>>

\* the hook: get_stats_path()
ResolveHook == Resolves("hook", get_stats_path(config))
\* the CLI: STATS_FILE, set when skillbook.py is loaded
ResolveCli == Resolves("cli", _load_config(config))
\* the dashboard: STATS_FILE, set when skillbook_dashboard.py is loaded
ResolveDashboard == Resolves("dash", dashboard_load_config(config))
\* the installer: status() calls _find_stats_path()
ResolveInstaller == Resolves("inst", _find_stats_path(config, located.cwd))

NextResolve == ResolveHook \/ ResolveCli \/ ResolveDashboard \/ ResolveInstaller

SpecResolve == InitResolve /\ [][NextResolve]_vars

\* ---- the installer: pure functions on settings.json ----
\* _read_settings: a missing or blank file reads as {}, an unparsable one as None
Read(ok, d) == [ok |-> ok, data |-> d]
_read_settings(f) ==
    IF f.kind \in {"absent", "blank"} THEN Read(TRUE, EmptyObject)
    ELSE IF f.kind = "unparsable" THEN Read(FALSE, EmptyObject)
    ELSE Read(TRUE, f.data)

\* the first command of hs, from position j on, that is a skillbook hook ("" if none)
RECURSIVE FirstMatch(_, _)
FirstMatch(hs, j) ==
    IF j > Len(hs) THEN ""
    ELSE IF IsSkillbookCommand(hs[j]) THEN hs[j]
    ELSE FirstMatch(hs, j + 1)

\* _find_hook_indices: <<index, command>> for every entry that holds a
\* skillbook hook, the command being the first such hook of the entry
RECURSIVE FindFrom(_, _)
FindFrom(list, i) ==
    IF i > Len(list) THEN <<>>
    ELSE (IF FirstMatch(list[i].hooks, 1) # ""
          THEN << <<i, FirstMatch(list[i].hooks, 1)>> >>
          ELSE <<>>) \o FindFrom(list, i + 1)

_find_hook_indices(d) == FindFrom(d.list, 1)

Indices(existing) == {existing[j][1] : j \in DOMAIN existing}

\* merge_settings_json lines 358-361
already_registered(d) ==
    \E j \in DOMAIN _find_hook_indices(d) : _find_hook_indices(d)[j][2] = HOOK_COMMAND

\* merge_settings_json lines 379-400: the settings it writes
merged_settings(d) ==
    LET existing == _find_hook_indices(d)
    IN  IF existing # <<>>
        THEN [d EXCEPT !.list = [i \in DOMAIN d.list |->
                                    IF i \in Indices(existing) THEN new_hook_entry
                                    ELSE d.list[i]]]
        ELSE [d EXCEPT !.hooks = TRUE, !.ups = TRUE,
                       !.list = Append(d.list, new_hook_entry)]

\* list without the entries at the indices idx
RECURSIVE Without(_, _, _)
Without(list, idx, i) ==
    IF i > Len(list) THEN <<>>
    ELSE (IF i \in idx THEN <<>> ELSE <<list[i]>>) \o Without(list, idx, i + 1)

\* uninstall lines 584-604: the entries are popped, and an empty
\* UserPromptSubmit and an empty hooks object are dropped
removed_settings(d) ==
    LET rest == Without(d.list, Indices(_find_hook_indices(d)), 1)
    IN  [d EXCEPT !.list = rest,
                  !.ups = (rest # <<>>),
                  !.hooks = d.events \/ rest # <<>>]

\* ---- the installer: install() and uninstall(purge) ----
\* configurations whose statsFile is a path under the home directory
HomeConfigs ==
    {NoConfig, Config("object", "missing")}
        \cup {Config("object", sf) : sf \in Paths \ {"outside"}}

\* the lists of commands an entry may hold
RECURSIVE HookLists(_)
HookLists(n) ==
    IF n = 0 THEN {<<>>}
    ELSE LET shorter == HookLists(n - 1)
         IN  shorter \cup {Append(hs, c) : hs \in {t \in shorter : Len(t) = n - 1},
                                          c \in HookCommands}

HookEntries == {HookEntry(m, hs) : m \in BOOLEAN, hs \in HookLists(MaxHooks)}

\* the lists of at most n entries that hold at most h hooks in all
RECURSIVE EntryLists(_, _)
EntryLists(n, h) ==
    IF n = 0 THEN {<<>>}
    ELSE {<<>>} \cup
         UNION {{<<e>> \o l : l \in EntryLists(n - 1, h - Len(e.hooks))} :
                    e \in {x \in HookEntries : Len(x.hooks) <= h}}

\* every settings object: without "hooks", with hooks that has no
\* UserPromptSubmit, and with a UserPromptSubmit list
SettingsObjects ==
    {Data(k, FALSE, FALSE, FALSE, <<>>) : k \in BOOLEAN}
        \cup {Data(k, TRUE, e, FALSE, <<>>) : k \in BOOLEAN, e \in BOOLEAN}
        \cup {Data(TRUE, TRUE, e, TRUE, l) : e \in BOOLEAN, l \in EntryLists(MaxEntries, MaxHooks)}

AllSettings ==
    {SettingsFile(k, EmptyObject) : k \in {"absent", "blank", "unparsable"}}
        \cup {SettingsFile("doc", d) : d \in SettingsObjects}

\* the settings files an installation usually meets
SettingsStates ==
    {SettingsFile(k, EmptyObject) : k \in {"absent", "unparsable"}}
        \cup {SettingsFile("doc", Data(TRUE, FALSE, FALSE, FALSE, <<>>)),
              SettingsFile("doc", Data(TRUE, TRUE, FALSE, TRUE, <<HookEntry(FALSE, <<OLD_COMMAND>>)>>)),
              Registered}

InitInstall ==
    /\ today = 1
    /\ fs = FullFs
    /\ config \in HomeConfigs
    /\ file \in InitFiles
    /\ dirExists = (file.kind # "absent")
    /\ temps = {}
    /\ started = 0
    /\ pc = [p \in Procs |-> "off"]
    /\ InitLocal
    /\ InitCalc
    /\ InitViews
    /\ skillDir \in BOOLEAN
    /\ hookFiles \in SUBSET {".py", ".sh"}
    /\ settings \in SettingsStates
    /\ backups = <<>>
    /\ run = Run("none", MaxOps - 1, <<>>, {}, "")
    /\ statsLoc = get_stats_path(config).loc
    /\ statsLoc = "skilldir" /\ file.kind # "absent" => skillDir
    /\ ipc = "idle"
    /\ purge = FALSE

\* merge_settings_json and the hook removal of uninstall on their own, on
\* every settings file
InitSettings ==
    /\ today = 1
    /\ fs = FullFs
    /\ config = NoConfig
    /\ file = Absent
    /\ dirExists = TRUE
    /\ temps = {}
    /\ started = 0
    /\ pc = [p \in Procs |-> "off"]
    /\ InitLocal
    /\ InitCalc
    /\ InitViews
    /\ skillDir = TRUE
    /\ hookFiles = {".py"}
    /\ settings \in AllSettings
    /\ backups = <<>>
    /\ run = Run("none", 0, <<>>, {}, "")
    /\ statsLoc = "default"
    /\ ipc = "idle"
    /\ purge = FALSE

\* what the installer leaves alone
InstallerFrame ==
    UNCHANGED <<today, fs, temps, started, local, calc, views, statsLoc>>

\* a new process of the installer may start
InstallerStartable == ipc \in {"idle", "done", "exit"} /\ run.n < MaxOps

Starts(o) == run' = Run(o, run.n + 1, <<>>, {}, "")
Called(step) == run' = [run EXCEPT !.steps = Append(@, step)]
Failed(step, msg) ==
    run' = [run EXCEPT !.steps = Append(@, step), !.fails = @ \cup {step}, !.said = msg]

\* install() lines 518-535: the closing line of a failed step
FailureMessage ==
    [check_python_version |-> "Installation aborted.",
     copy_skill_files |-> "Installation failed at: copy skill files",
     copy_hook_file |-> "Installation failed at: copy hook file",
     merge_settings_json |-> "Installation failed at: merge settings.json"]

\* an exception nothing catches ends the process with a traceback
Traceback == "Traceback (most recent call last)"

\* skillbook.py main() lines 388-391
InstallBegin ==
    /\ InstallerStartable
    /\ Starts("install")
    /\ ipc' = "check_python_version"
    /\ UNCHANGED <<config, file, dirExists, skillDir, hookFiles, settings, backups, purge>>
    /\ InstallerFrame

\* step 1, check_python_version: the interpreter is 3.8 or later, or is not
CheckPythonVersion(ok) ==
    /\ ipc = "check_python_version"
    /\ IF ok
       THEN Called("check_python_version") /\ ipc' = "copy_skill_files"
       ELSE /\ Failed("check_python_version", FailureMessage.check_python_version)
            /\ ipc' = "exit"
    /\ UNCHANGED <<config, file, dirExists, skillDir, hookFiles, settings, backups, purge>>
    /\ InstallerFrame

\* step 2, copy_skill_files: the source tree is copied over the skill directory
CopySkillFiles ==
    /\ ipc = "copy_skill_files"
    /\ skillDir' = TRUE
    /\ Called("copy_skill_files")
    /\ ipc' = "copy_hook_file"
    /\ UNCHANGED <<config, file, dirExists, hookFiles, settings, backups, purge>>
    /\ InstallerFrame

\* step 3, copy_hook_file: the repository ships skill-usage-tracker.py
CopyHookFile ==
    /\ ipc = "copy_hook_file"
    /\ hookFiles' = hookFiles \cup {".py"}
    /\ Called("copy_hook_file")
    /\ ipc' = "merge_settings_json"
    /\ UNCHANGED <<config, file, dirExists, skillDir, settings, backups, purge>>
    /\ InstallerFrame

\* mutant: the result of a copy step is not looked at
CopyFailsUnnoticed ==
    /\ ipc \in {"copy_skill_files", "copy_hook_file"}
    /\ run' = [run EXCEPT !.steps = Append(@, ipc), !.fails = @ \cup {ipc}]
    /\ ipc' = IF ipc = "copy_skill_files" THEN "copy_hook_file" ELSE "merge_settings_json"
    /\ UNCHANGED <<config, file, dirExists, skillDir, hookFiles, settings, backups, purge>>
    /\ InstallerFrame

\* a copy raises OSError: the step returns False, install() prints the
\* failure and exits with 1
CopyFails ==
    /\ ipc \in {"copy_skill_files", "copy_hook_file"}
    /\ Failed(ipc, FailureMessage[ipc])
    /\ ipc' = "exit"
    /\ UNCHANGED <<config, file, dirExists, skillDir, hookFiles, settings, backups, purge>>
    /\ InstallerFrame

\* where the run goes on after the settings step
AfterMerge == IF run.op = "install" THEN "create_default_config" ELSE "done"
AbortMerge == IF run.op = "install" THEN "exit" ELSE "done"
AfterRemove == IF run.op = "uninstall" THEN "remove_hook_files" ELSE "done"

\* step 4, merge_settings_json lines 342-361: unreadable settings end the
\* installation; a hook registered with the current command ends the step
MergeSettings ==
    /\ ipc = "merge_settings_json"
    /\ LET r == _read_settings(settings)
       IN  IF ~r.ok
           THEN /\ Failed("merge_settings_json", FailureMessage.merge_settings_json)
                /\ ipc' = AbortMerge
           ELSE /\ Called("merge_settings_json")
                /\ ipc' = IF already_registered(r.data) THEN AfterMerge
                          ELSE "merge_backup"
    /\ UNCHANGED <<config, file, dirExists, skillDir, hookFiles, settings, backups, purge>>
    /\ InstallerFrame

\* _backup_settings: the file is copied to settings.json.bak.<timestamp>; a
\* backup made within the same second as the latest one replaces it
BackedUp(same) ==
    IF settings.kind = "absent" THEN backups
    ELSE IF same /\ backups # <<>> THEN [backups EXCEPT ![Len(backups)] = settings]
    ELSE Append(backups, settings)

\* mutant: no backup is made
MergeBackupOmitted(same) ==
    /\ ipc = "merge_backup"
    /\ ipc' = "merge_write"
    /\ UNCHANGED <<config, file, dirExists, skillDir, hookFiles, settings, backups, run, purge>>
    /\ InstallerFrame

\* merge_settings_json lines 364-366
MergeBackup(same) ==
    /\ ipc = "merge_backup"
    /\ backups' = BackedUp(same)
    /\ ipc' = "merge_write"
    /\ UNCHANGED <<config, file, dirExists, skillDir, hookFiles, settings, run, purge>>
    /\ InstallerFrame

\* shutil.copy2 raises OSError, which neither merge_settings_json nor
\* uninstall catches
BackupFails ==
    /\ ipc \in {"merge_backup", "remove_backup"}
    /\ settings.kind # "absent"
    /\ run' = [run EXCEPT !.fails = @ \cup {"_backup_settings"}, !.said = Traceback]
    /\ ipc' = "exit"
    /\ UNCHANGED <<config, file, dirExists, skillDir, hookFiles, settings, backups, purge>>
    /\ InstallerFrame

\* merge_settings_json lines 368-406 and _write_settings
MergeWrite ==
    /\ ipc = "merge_write"
    /\ settings' = SettingsFile("doc", merged_settings(_read_settings(settings).data))
    /\ ipc' = AfterMerge
    /\ UNCHANGED <<config, file, dirExists, skillDir, hookFiles, backups, run, purge>>
    /\ InstallerFrame

\* write_text raises OSError before or after it has truncated the file
MergeWriteFails(cut) ==
    /\ ipc = "merge_write"
    /\ settings' = IF cut THEN SettingsFile("blank", EmptyObject) ELSE settings
    /\ run' = [run EXCEPT !.fails = @ \cup {"merge_settings_json"},
                          !.said = FailureMessage.merge_settings_json]
    /\ ipc' = AbortMerge
    /\ UNCHANGED <<config, file, dirExists, skillDir, hookFiles, backups, purge>>
    /\ InstallerFrame

\* step 5, create_default_config
CreateDefaultConfig ==
    /\ ipc = "create_default_config"
    /\ config' = IF config.kind = "absent" THEN Config("object", "default") ELSE config
    /\ Called("create_default_config")
    /\ ipc' = "verify_installation"
    /\ UNCHANGED <<file, dirExists, skillDir, hookFiles, settings, backups, purge>>
    /\ InstallerFrame

\* lines 428-430: the config cannot be written; the step returns True
CreateDefaultConfigFails ==
    /\ ipc = "create_default_config"
    /\ config.kind = "absent"
    /\ run' = [run EXCEPT !.steps = Append(@, "create_default_config"),
                          !.fails = @ \cup {"create_default_config"}]
    /\ ipc' = "verify_installation"
    /\ UNCHANGED <<config, file, dirExists, skillDir, hookFiles, settings, backups, purge>>
    /\ InstallerFrame

\* step 6, verify_installation, and the closing line of install()
VerifyInstallation ==
    /\ ipc = "verify_installation"
    /\ LET r == _read_settings(settings)
           ok == /\ skillDir
                 /\ hookFiles # {}
                 /\ r.ok /\ _find_hook_indices(r.data) # <<>>
       IN  run' = [run EXCEPT
               !.steps = Append(@, "verify_installation"),
               !.said = IF ok THEN "Installation complete! Try: /skillbook"
                        ELSE "Installation finished with warnings. Check above for details."]
    /\ ipc' = "done"
    /\ UNCHANGED <<config, file, dirExists, skillDir, hookFiles, settings, backups, purge>>
    /\ InstallerFrame

\* skillbook.py main() lines 393-396
UninstallBegin(pg) ==
    /\ InstallerStartable
    /\ Starts("uninstall")
    /\ purge' = pg
    /\ ipc' = "remove_hook_entry"
    /\ UNCHANGED <<config, file, dirExists, skillDir, hookFiles, settings, backups>>
    /\ InstallerFrame

\* uninstall step 1, lines 573-579 and 611-612: settings that cannot be read,
\* are empty or hold no skillbook hook are left alone
RemoveHookEntry ==
    /\ ipc = "remove_hook_entry"
    /\ LET r == _read_settings(settings)
       IN  ipc' = IF /\ r.ok
                     /\ r.data # EmptyObject
                     /\ _find_hook_indices(r.data) # <<>>
                  THEN "remove_backup"
                  ELSE AfterRemove
    /\ Called("remove_hook_entry")
    /\ UNCHANGED <<config, file, dirExists, skillDir, hookFiles, settings, backups, purge>>
    /\ InstallerFrame

\* uninstall lines 580-582
RemoveBackup(same) ==
    /\ ipc = "remove_backup"
    /\ backups' = BackedUp(same)
    /\ ipc' = "remove_write"
    /\ UNCHANGED <<config, file, dirExists, skillDir, hookFiles, settings, run, purge>>
    /\ InstallerFrame

\* uninstall lines 584-607 and _write_settings
RemoveWrite ==
    /\ ipc = "remove_write"
    /\ settings' = SettingsFile("doc", removed_settings(_read_settings(settings).data))
    /\ ipc' = AfterRemove
    /\ UNCHANGED <<config, file, dirExists, skillDir, hookFiles, backups, run, purge>>
    /\ InstallerFrame

\* lines 608-609: the failure is printed and uninstall goes on
RemoveWriteFails(cut) ==
    /\ ipc = "remove_write"
    /\ settings' = IF cut THEN SettingsFile("blank", EmptyObject) ELSE settings
    /\ run' = [run EXCEPT !.fails = @ \cup {"remove_hook_entry"}]
    /\ ipc' = AfterRemove
    /\ UNCHANGED <<config, file, dirExists, skillDir, hookFiles, backups, purge>>
    /\ InstallerFrame

\* uninstall step 2: hook_path.unlink() for .py and .sh
RemoveHookFiles ==
    /\ ipc = "remove_hook_files"
    /\ hookFiles' = {}
    /\ Called("remove_hook_files")
    /\ ipc' = IF purge THEN "rmtree" ELSE "done"
    /\ UNCHANGED <<config, file, dirExists, skillDir, settings, backups, purge>>
    /\ InstallerFrame

\* uninstall step 3: shutil.rmtree(SKILL_INSTALL_DIR) removes the directory
\* with everything in it
PurgeSkillDir ==
    /\ ipc = "rmtree"
    /\ skillDir' = FALSE
    /\ file' = IF skillDir /\ statsLoc = "skilldir" THEN Absent ELSE file
    /\ dirExists' = IF skillDir /\ statsLoc = "skilldir" THEN FALSE ELSE dirExists
    /\ Called("rmtree")
    /\ ipc' = "unlink_config"
    /\ UNCHANGED <<config, hookFiles, settings, backups, purge>>
    /\ InstallerFrame

\* uninstall step 3: CONFIG_FILE.unlink(), then the reminder, which only reads
PurgeConfig ==
    /\ ipc = "unlink_config"
    /\ config' = NoConfig
    /\ Called("unlink_config")
    /\ ipc' = "done"
    /\ UNCHANGED <<file, dirExists, skillDir, hookFiles, settings, backups, purge>>
    /\ InstallerFrame

InstallSteps ==
    \/ \E ok \in BOOLEAN : CheckPythonVersion(ok)
    \/ CopySkillFiles
    \/ CopyHookFile
    \/ CopyFails
    \/ CreateDefaultConfig
    \/ CreateDefaultConfigFails
    \/ VerifyInstallation

MergeSteps ==
    \/ MergeSettings
    \/ \E same \in BOOLEAN : MergeBackup(same)
    \/ MergeWrite
    \/ \E cut \in BOOLEAN : MergeWriteFails(cut)
    \/ BackupFails

RemoveSteps ==
    \/ RemoveHookEntry
    \/ \E same \in BOOLEAN : RemoveBackup(same)
    \/ RemoveWrite
    \/ \E cut \in BOOLEAN : RemoveWriteFails(cut)

PurgeSteps ==
    \/ RemoveHookFiles
    \/ PurgeSkillDir
    \/ PurgeConfig

NextInstall ==
    \/ InstallBegin
    \/ \E pg \in BOOLEAN : UninstallBegin(pg)
    \/ InstallSteps
    \/ MergeSteps
    \/ RemoveSteps
    \/ PurgeSteps

SpecInstall == InitInstall /\ [][NextInstall]_vars

\* merge_settings_json is called on its own
MergeAlone ==
    /\ InstallerStartable
    /\ Starts("merge")
    /\ ipc' = "merge_settings_json"
    /\ UNCHANGED <<config, file, dirExists, skillDir, hookFiles, settings, backups, purge>>
    /\ InstallerFrame

\* step 1 of uninstall is called on its own
RemoveAlone ==
    /\ InstallerStartable
    /\ Starts("remove")
    /\ ipc' = "remove_hook_entry"
    /\ UNCHANGED <<config, file, dirExists, skillDir, hookFiles, settings, backups, purge>>
    /\ InstallerFrame

NextSettings ==
    \/ MergeAlone
    \/ RemoveAlone
    \/ MergeSteps
    \/ RemoveSteps

SpecSettings == InitSettings /\ [][NextSettings]_vars

\* one invocation that meets no error of the file system, over every
\* configuration file and every shape of the stats file
NextConfig ==
    \E p \in Procs :
        \/ \E raw \in ConfigInputs : HookBegin(p, raw)
        \/ \E c \in StoreCommands : CliBegin(p, c[1], c[2])
        \/ HookRuns(p)
        \/ CliRuns(p)

SpecConfig == InitConfig /\ [][NextConfig]_vars

\* ---- properties ----
Uses(doc, s) == IF s \in DOMAIN doc.skills THEN doc.skills[s].uses ELSE 0

\* the changes of an invocation that other processes can see in the stats file
VisibleEffects(p) == effects[p] \cap {"truncate", "write", "replace"}

\* the invocation's save ran to its last step
SaveCompleted(p) ==
    IF kind[p] = "hook" THEN "replace" \in effects[p] ELSE "write" \in effects[p]

\* C1: at every moment a reader of the stats file finds it absent (not yet
\* created) or holding a complete document, never an empty or partial one.
C1_ReaderSeesCompleteDocument == file.kind \in {"absent", "doc"}

\* C2: every complete document in the stats file has totalUses equal to the
\* sum of uses over its skills.
C2_TotalIsSumOfUses == file.kind = "doc" => file.doc.totalUses = TotalOfSkills(file.doc)

\* C2 witness: a document with two used skills, written after three
\* invocations of which two were in flight together.
C2_Witness ==
    /\ file.kind = "doc"
    /\ Cardinality({s \in DOMAIN file.doc.skills : file.doc.skills[s].uses > 0}) = 2
    /\ started = 3
    /\ \E p \in Procs : pc[p] \in {"replace", "write"}

\* C3: from one complete document in the stats file to the next, no skill's
\* uses becomes smaller and no skill disappears.
C3_UsesNeverDecrease ==
    [][file.kind = "doc" /\ file'.kind = "doc"
          => \A s \in DOMAIN file.doc.skills : Uses(file'.doc, s) >= Uses(file.doc, s)]_vars

\* C3 as amended: a document an invocation persists holds, for every skill,
\* a uses value no smaller than in the document that invocation loaded; so
\* the value does not decrease when the file still held the loaded document.
C3_NoDecrementOfLoaded ==
    [][file' # file /\ file'.kind = "doc"
          => \E p \in Procs :
                /\ id[p] = file'.by
                /\ \A s \in DOMAIN base[p].skills :
                      Uses(file'.doc, s) >= Uses(base[p], s)
                /\ file.kind = "doc" /\ file.doc = base[p]
                      => \A s \in DOMAIN file.doc.skills :
                            Uses(file'.doc, s) >= Uses(file.doc, s)]_vars

\* C3 witness: a hook replaced the document it had loaded, which already
\* counted the skill, by one counting it once more.
C3_Witness ==
    \E p \in Procs :
        /\ kind[p] = "hook" /\ pc[p] = "notify"
        /\ file = Complete(upd[p], id[p], id[p])
        /\ Uses(base[p], name[p]) >= 1
        /\ Uses(file.doc, name[p]) = Uses(base[p], name[p]) + 1

\* a hook invocation whose write went through
HookWrote(p) ==
    kind[p] = "hook" /\ "replace" \in effects[p] /\ pc[p] \in {"notify", "done"}

\* two hook invocations recorded the same skill on the same base document,
\* both wrote, and the file holds what one of them wrote
SameBasePair(p, q) ==
    /\ p # q
    /\ HookWrote(p) /\ HookWrote(q)
    /\ name[p] = name[q]
    /\ base[p] = base[q]
    /\ file.kind = "doc"
    /\ file.by \in {id[p], id[q]}

\* C4: when two hook invocations load the same base document and both write,
\* the persisted document holds one increment only: nothing makes the second
\* writer see the first one's increment.
C4_LastWriterWins ==
    \A p, q \in Procs :
        SameBasePair(p, q) =>
            /\ Uses(file.doc, name[p]) = Uses(base[p], name[p]) + 1
            /\ file.doc.totalUses = base[p].totalUses + 1

\* C4 witness: two hook invocations that overlapped (each loaded before the
\* other wrote) have both completed their write.
C4_Witness ==
    \E p, q \in Procs :
        /\ SameBasePair(p, q)
        /\ pc[p] = "done" /\ pc[q] = "done"
        /\ started = 2

\* C5: an invocation killed before its save completed has changed nothing
\* in the visible stats file.
C5_CrashedSaveLeavesFile ==
    \A p \in Procs :
        pc[p] = "crashed" /\ ~SaveCompleted(p) => VisibleEffects(p) = {}

\* C6: when the hook's save fails after the temporary file was created, the
\* temporary file is removed, the error is raised to the caller of the save
\* and the invocation has not touched the stats file.
C6_FailedSaveCleansUp ==
    \A p \in Procs :
        kind[p] = "hook" /\ failed[p] # "none" /\ "mkstemp" \in effects[p] =>
            /\ id[p] \notin temps
            /\ VisibleEffects(p) = {}

\* C10: a hook invocation whose save failed with OSError has ended, printed
\* nothing, let no exception out of main() and has not changed the stats file.
C10_StorageErrorSwallowed ==
    \A p \in Procs :
        kind[p] = "hook" /\ failed[p] = "OSError" =>
            /\ pc[p] = "done"
            /\ out[p] = <<>>
            /\ fault[p] = "none"
            /\ VisibleEffects(p) = {}

\* C10 witness: the rename failed after the temporary file was written.
C10_Witness ==
    \E p \in Procs :
        /\ kind[p] = "hook" /\ failed[p] = "OSError"
        /\ {"mkstemp", "unlink"} \subseteq effects[p]
        /\ levels[p][2] > levels[p][1]

\* the level of section 4.2: 0 for 0 uses, else the largest n with
\* n * n <= 10 * uses, at least 1
Level(u) ==
    IF u = 0 THEN 0
    ELSE Max(1, CHOOSE n \in 0..(10 * u) : n * n <= 10 * u /\ (n + 1) * (n + 1) > 10 * u)

\* slot p has just loaded a document and built the one that records a usage
StartsRecording(p) ==
    /\ pc[p] \in {"idle", "done", "crashed"}
    /\ pc'[p] \in {"mkdir", "open"}
    /\ kind'[p] \in {"hook", "use"}

\* C7: record-usage builds, from the loaded document and skill S, a document
\* with uses(S) and totalUses one larger, lastUsed(S) the current date and
\* pinned(S) kept (false for a new entry), and returns level(old uses) and
\* level(old uses + 1); from the empty document: 1, 1, level 0 and level(1).
C7_RecordUse ==
    [][\A p \in Procs :
          StartsRecording(p) =>
              LET S == name'[p]
                  old == base'[p]
                  new == upd'[p]
                  had == S \in DOMAIN old.skills
              IN  /\ S \in DOMAIN new.skills
                  /\ new.skills[S].uses = (IF had THEN old.skills[S].uses ELSE 0) + 1
                  /\ new.skills[S].pinned = (IF had THEN old.skills[S].pinned ELSE FALSE)
                  /\ new.skills[S].lastUsed = today
                  /\ new.totalUses = old.totalUses + 1
                  /\ levels'[p] = <<Level(Uses(old, S)), Level(Uses(old, S) + 1)>>
                  /\ \A s \in DOMAIN old.skills \ {S} :
                        s \in DOMAIN new.skills /\ new.skills[s] = old.skills[s]
                  /\ old.skills = <<>> /\ old.totalUses = 0 =>
                        /\ new.skills[S].uses = 1 /\ new.totalUses = 1
                        /\ levels'[p] = <<0, 3>>]_vars

\* C7 witness: on day 2 a skill last used on day 1 is recorded again.
C7_Witness ==
    \E p \in Procs :
        /\ kind[p] \in {"hook", "use"} /\ pc[p] \in {"mkdir", "open"}
        /\ name[p] \in DOMAIN base[p].skills
        /\ base[p].skills[name[p]].lastUsed = 1
        /\ upd[p].skills[name[p]].lastUsed = 2
        /\ today = 2

\* the prompt begins with a command token of n chunks whose alias-resolved
\* identifier names an installed skill
RecordablePrompt(prompt) ==
    \E n \in 1..(Len(prompt) - 1) :
        /\ prompt[1] = "/"
        /\ \A i \in 2..(n + 1) : IsTokenChunk(prompt[i])
        /\ n + 2 <= Len(prompt) => ~IsTokenChunk(prompt[n + 2])
        /\ LET token == SubSeq(prompt, 2, n + 1)
               canonical == IF token \in DOMAIN ALIASES THEN ALIASES[token] ELSE token
           IN  check_skill_exists(fs, canonical)

\* C8: a hook invocation whose input does not begin with the command token
\* of an existing skill creates no directory or temporary file, leaves the
\* stats file as it was and prints nothing.
C8_NoEffectWithoutKnownCommand ==
    \A p \in Procs :
        kind[p] = "hook" /\ id[p] > 0
            /\ ~(input[p].kind = "object" /\ RecordablePrompt(input[p].prompt)) =>
                /\ pc[p] = "done"
                /\ effects[p] = {}
                /\ out[p] = <<>>
                /\ file \in OneFiles
                /\ temps = {}

\* C8 witness: "/wrap " was submitted while session-wrap:wrap is not installed.
C8_Witness ==
    \E p \in Procs :
        /\ kind[p] = "hook" /\ pc[p] = "done"
        /\ input[p] = HookInput("object", <<"/", "wrap", " ">>)
        /\ ~check_skill_exists(fs, SESSION_WRAP_WRAP)
        /\ WRAP \in fs.skills

\* the hook invocation in slot p extracted an alias and wrote the stats file
RecordedAlias(p) ==
    /\ kind[p] = "hook" /\ id[p] > 0
    /\ input[p].kind = "object"
    /\ extract_command(input[p].prompt) \in DOMAIN ALIASES
    /\ check_skill_exists(fs, ALIASES[extract_command(input[p].prompt)])
    /\ pc[p] \in {"notify", "done"}
    /\ failed[p] = "none"

\* C9: a hook invocation on an alias of an existing skill that ran to its end
\* leaves a document in which the canonical identifier has one use more than
\* in the loaded document, totalUses is one larger, and every other entry, the
\* alias token's included, is as it was (absent if it was absent).
C9_AliasRecordsCanonical ==
    \A p \in Procs :
        RecordedAlias(p) =>
            LET alias == extract_command(input[p].prompt)
                canonical == ALIASES[alias]
            IN  /\ file.kind = "doc"
                /\ Uses(file.doc, canonical) = Uses(base[p], canonical) + 1
                /\ file.doc.totalUses = base[p].totalUses + 1
                /\ DOMAIN file.doc.skills = DOMAIN base[p].skills \cup {canonical}
                /\ \A s \in DOMAIN base[p].skills \ {canonical} :
                      file.doc.skills[s] = base[p].skills[s]
                /\ alias \in DOMAIN file.doc.skills <=> alias \in DOMAIN base[p].skills

\* C9 witness: "/wrap" ran to its end while both the local skill "wrap" and
\* the plugin skill session-wrap:wrap are installed.
C9_Witness ==
    \E p \in Procs :
        /\ RecordedAlias(p) /\ pc[p] = "done"
        /\ input[p].prompt = <<"/", "wrap">>
        /\ WRAP \in fs.skills
        /\ Uses(file.doc, SESSION_WRAP_WRAP) = 1

\* ---- errors of input, configuration and stats file ----
Started(p) == pc[p] \notin {"idle", "off"}

\* C11: whatever the hook's input, the stats file and the configuration file
\* hold, no exception leaves a hook invocation.
C11_HookTerminatesNormally ==
    \A p \in Procs : Started(p) /\ kind[p] = "hook" => fault[p] = "none"

\* C12: no loader of the stats file raises when the file is absent or does
\* not parse: no invocation ends with the JSON parser's exception.
C12_LoadReturnsDefault ==
    \A p \in Procs : Started(p) => fault[p] # "JSONDecodeError"

\* the hook invocation in slot p replaced the stats file and has returned
Recorded(p) == kind[p] = "hook" /\ pc[p] = "done" /\ "replace" \in effects[p]

\* C13: a hook invocation that recorded a usage has printed exactly the
\* level-up line if the level after the use is above the level before it and
\* nothing otherwise; before it returns it has printed nothing, and it never
\* prints more than one line.
C13_OneLineOnLevelUp ==
    \A p \in Procs :
        kind[p] = "hook" =>
            LET old == Level(Uses(base[p], name[p]))
                new == Level(Uses(upd[p], name[p]))
            IN  /\ Len(out[p]) <= 1
                /\ pc[p] # "done" => out[p] = <<>>
                /\ Recorded(p) /\ new > old => out[p] = <<LevelUp(name[p], old, new)>>
                /\ Recorded(p) /\ new <= old => out[p] = <<>>

\* C13 witness: the sixth use of a skill is recorded; the level stays 7 and
\* nothing is printed.
C13_Witness ==
    \E p \in Procs :
        /\ Recorded(p)
        /\ Uses(base[p], name[p]) = 5 /\ Uses(file.doc, name[p]) = 6
        /\ out[p] = <<>>

\* C14: an invocation whose configured stats path is outside the home
\* directory makes no change to the file system.
C14_OutsidePathRejected ==
    \A p \in Procs : path[p] = "outside" => effects[p] = {}

MalformedConfig ==
    \/ config.kind \in {"unparsable", "nonobject"}
    \/ config.kind = "object" /\ config.statsFile = "nonstring"

\* the invocation in slot p got as far as reading the configuration file
ReadConfig(p) ==
    /\ Started(p)
    /\ kind[p] = "hook" => name[p] # <<>>

\* C15: with a malformed configuration file an invocation raises nothing
\* while loading it, goes on with the default stats path, and prints nothing
\* about it on standard output.
C15_MalformedConfigFallsBack ==
    \A p \in Procs :
        MalformedConfig /\ ReadConfig(p) /\ file.kind \in {"absent", "doc"} =>
            /\ fault[p] = "none"
            /\ path[p] = "default"
            /\ pc[p] # "done" => out[p] = <<>>

\* ---- toggle-pinned ----
\* slots p and q hold two completed "pin" invocations on the same skill, q's
\* directly after p's: q loaded the document that p saved
PinnedTwice(p, q) ==
    /\ p # q
    /\ kind[p] = "pin" /\ kind[q] = "pin"
    /\ pc[p] = "done" /\ pc[q] = "done"
    /\ fault[p] = "none" /\ fault[q] = "none"
    /\ name[p] = name[q]
    /\ id[p] < id[q]
    /\ base[q] = upd[p]

\* C16: after the first toggle the pinned flag is the opposite of what it was
\* (false for a skill without an entry), after the second it is what it was;
\* uses of the skill and totalUses are the same in the loaded document and
\* after each toggle, and a skill never seen before ends as the entry with
\* uses 0 that is not pinned.
C16_PinTwiceRestores ==
    \A p, q \in Procs :
        PinnedTwice(p, q) =>
            LET S == name[p]
                was == IF S \in DOMAIN base[p].skills
                       THEN base[p].skills[S].pinned ELSE FALSE
            IN  /\ S \in DOMAIN upd[p].skills /\ S \in DOMAIN upd[q].skills
                /\ upd[p].skills[S].pinned = ~was
                /\ upd[q].skills[S].pinned = was
                /\ Uses(upd[p], S) = Uses(base[p], S)
                /\ Uses(upd[q], S) = Uses(base[p], S)
                /\ upd[p].totalUses = base[p].totalUses
                /\ upd[q].totalUses = base[p].totalUses
                /\ S \notin DOMAIN base[p].skills =>
                      /\ upd[p].skills[S].uses = 0
                      /\ upd[q].skills[S] = [uses |-> 0, lastUsed |-> 0, pinned |-> FALSE]

\* C16 witness: a skill without an entry was toggled twice and the stats file
\* holds the result of the second toggle.
C16_Witness ==
    \E p, q \in Procs :
        /\ PinnedTwice(p, q)
        /\ name[p] \notin DOMAIN base[p].skills
        /\ file.kind = "doc" /\ file.doc = upd[q]

\* ---- level and rarity ----
\* C17: for a count u >= 0 the hook's, the CLI's and the dashboard's level
\* functions return the same n: 0 for u = 0, and otherwise the n >= 1 with
\* n * n <= 10 * u < (n + 1) * (n + 1); 3, 10, 31 and 100 for u = 1, 10, 100
\* and 1000.
C17_LevelIsFloorSqrt ==
    /\ shown.hook # -1 /\ count >= 0 =>
          LET n == shown.hook
          IN  /\ shown.cli = n /\ shown.dash = n
              /\ count = 0 => n = 0
              /\ count > 0 => n >= 1 /\ n * n <= 10 * count /\ (n + 1) * (n + 1) > 10 * count
              /\ count = 1 => n = 3
              /\ count = 10 => n = 10
              /\ count = 100 => n = 31
              /\ count = 1000 => n = 100
    /\ shown.wide # -1 =>
          LET n == shown.wide
              x == WideTimes(wide, 10)
          IN  /\ ~WideLess(x, WideMul(Wide(n), Wide(n)))
              /\ WideLess(x, WideMul(Wide(n + 1), Wide(n + 1)))

\* C18: the level reported after a use is never below the level reported
\* before it, for the hook and for the CLI: level(u) <= level(u + 1).
C18_LevelMonotone ==
    /\ reported.hook[1] <= reported.hook[2]
    /\ reported.cli[1] <= reported.cli[2]

\* C18 witness: the sixth use, which gains no level (7 before and after).
C18_Witness == count = 6 /\ reported.hook = <<7, 7>> /\ reported.cli = <<7, 7>>

\* the number of tier bounds that uses has reached
Tier(uses) == Cardinality({b \in {1, 5, 20, 50, 100} : uses >= b})

\* C19: the dashboard's number of stars is the number of the bounds 1, 5, 20,
\* 50, 100 that uses has reached (a bound itself counts), the CLI returns
\* that many stars, and for uses <= 0 no star but the question mark.
C19_RarityTiers ==
    shown.stars # -1 =>
        /\ shown.stars = Tier(count)
        /\ Tier(count) > 0 =>
              /\ Len(shown.rarity) = Tier(count)
              /\ \A i \in 1..Len(shown.rarity) : shown.rarity[i] = "star"
        /\ Tier(count) = 0 => shown.rarity = <<"unknown">>
        /\ count <= 0 <=> shown.stars = 0

\* C19 witness: uses is exactly the bound 50 and the tier is 4.
C19_Witness == count = 50 /\ shown.stars = 4 /\ Len(shown.rarity) = 4

\* ---- the stats file is kept ----
\* C20: no step of install, of uninstall or of uninstall --purge takes an
\* existing stats file away.
C20_StatsFileNeverDeleted ==
    [][file.kind # "absent" => file'.kind # "absent"]_vars

\* ---- the skill catalog ----
\* the installs of the registry that yield the identifier k
Yields(f, k) ==
    {i \in DOMAIN f.plugins :
        \/ k \in {full_name(f.plugins[i].name, sk) : sk \in f.plugins[i].skills}
        \/ f.plugins[i].root /\ k = f.plugins[i].name}

Least(S) == CHOOSE i \in S : \A j \in S : i <= j

\* the first discovery of k in the order local skills, commands, plugins (in
\* the order of the registry), project skills
FirstOccurrence(f, k) ==
    IF k \in f.skills THEN Entry("local", 0)
    ELSE IF k \in f.commands THEN Entry("command", 0)
    ELSE IF Yields(f, k) # {} THEN Entry("plugin", Least(Yields(f, k)))
    ELSE Entry("project", 0)

\* C21: every identifier of the catalog holds the entry of its first
\* discovery, in the CLI's catalog and in the dashboard's.
C21_FirstOccurrenceWins ==
    resolver.scanned =>
        /\ \A k \in DOMAIN resolver.cli : resolver.cli[k] = FirstOccurrence(fs, k)
        /\ \A k \in DOMAIN resolver.dash : resolver.dash[k] = FirstOccurrence(fs, k)

\* C28: every identifier the hook accepts is an identifier of the catalog.
C28_AcceptedIsCatalogued ==
    resolver.scanned /\ resolver.checked =>
        resolver.known \subseteq DOMAIN resolver.cli

\* ---- the installer ----
InstallOrder ==
    <<"check_python_version", "copy_skill_files", "copy_hook_file",
      "merge_settings_json", "create_default_config", "verify_installation">>

FatalSteps == {InstallOrder[i] : i \in 1..4}

IsPrefix(a, b) == Len(a) <= Len(b) /\ a = SubSeq(b, 1, Len(a))

\* C22: the steps of install are called in order; a failure of one of the
\* first four ends the run there, with a message and a non-zero exit; a
\* failure to create the config does not, and the run that ends normally has
\* called all six steps.
C22_InstallStepsInOrder ==
    run.op = "install" =>
        /\ IsPrefix(run.steps, InstallOrder)
        /\ \A st \in run.fails \cap FatalSteps :
              ipc = "exit" /\ run.steps[Len(run.steps)] = st /\ run.said # ""
        /\ (run.fails \cap (FatalSteps \cup {"_backup_settings"}) # {}) => ipc = "exit"
        /\ ("create_default_config" \in run.fails
               /\ run.fails \cap (FatalSteps \cup {"_backup_settings"}) = {})
              => ipc \in {"verify_installation", "done"}
        /\ (ipc = "done" => run.steps = InstallOrder)
        /\ (ipc = "exit" => run.fails # {} /\ run.said # "")

C22_Witness ==
    /\ run.op = "install"
    /\ ipc = "exit"
    /\ "copy_hook_file" \in run.fails
    /\ run.steps = SubSeq(InstallOrder, 1, 3)

\* the entries of UserPromptSubmit that hold a skillbook hook
HookCount(d) == Len(_find_hook_indices(d))

\* no skillbook hook, one current hook, or old hooks only
MergeCase(d) ==
    \/ HookCount(d) <= 1
    \/ ~already_registered(d)

\* what settings.json held before the first operation of the run
Original ==
    IF backups # <<>> THEN _read_settings(backups[1]).data
    ELSE _read_settings(settings).data

\* C24: after merge_settings_json has succeeded, exactly one entry of
\* UserPromptSubmit holds a skillbook hook, and it is the current command.
C24_HookRegisteredOnce ==
    /\ run.op = "merge" /\ run.n = 1 /\ ipc = "done" /\ run.fails = {}
    /\ MergeCase(Original)
    => /\ settings.kind = "doc"
       /\ HookCount(settings.data) = 1
       /\ _find_hook_indices(settings.data)[1][2] = HOOK_COMMAND

\* a modification is due at the step the installer is at
ModificationDue ==
    \/ /\ ipc \in {"merge_backup", "merge_write"}
       /\ ~already_registered(_read_settings(settings).data)
    \/ /\ ipc \in {"remove_backup", "remove_write"}
       /\ _find_hook_indices(_read_settings(settings).data) # <<>>

RECURSIVE Foreign(_)
Foreign(hs) ==
    IF hs = <<>> THEN <<>>
    ELSE (IF IsSkillbookCommand(Head(hs)) THEN <<>> ELSE <<Head(hs)>>) \o Foreign(Tail(hs))

\* the entries that hold hooks of other tools, with their matcher and
\* without the skillbook hooks
RECURSIVE ForeignEntries(_)
ForeignEntries(list) ==
    IF list = <<>> THEN <<>>
    ELSE (IF Foreign(Head(list).hooks) # <<>>
          THEN <<HookEntry(Head(list).matcher, Foreign(Head(list).hooks))>>
          ELSE <<>>) \o ForeignEntries(Tail(list))

\* C27: a write of settings.json by merge_settings_json or by uninstall keeps
\* the other keys, the other hook events, and the hooks of other tools in
\* UserPromptSubmit with their matcher.
C27_OnlySkillbookHooksChange ==
    [][settings.kind = "doc" /\ settings'.kind = "doc" =>
          /\ settings'.data.keys = settings.data.keys
          /\ settings'.data.events = settings.data.events
          /\ ForeignEntries(settings'.data.list) = ForeignEntries(settings.data.list)]_vars

\* C30: merge_settings_json followed by the hook removal of uninstall, on a
\* settings.json without skillbook hook, gives back the original document.
C30_MergeThenRemoveRestores ==
    /\ run.op = "remove" /\ run.n = 2 /\ ipc = "done" /\ run.fails = {}
    /\ Len(backups) = 2
    /\ backups[1].kind = "doc" /\ HookCount(backups[1].data) = 0
    /\ backups[2] = SettingsFile("doc", merged_settings(backups[1].data))
    => settings = backups[1]

\* ---- the stats path ----
Resolvers == {"hook", "cli", "dash", "inst"}

\* C29: for every content of the configuration file the hook, the CLI, the
\* dashboard and the installer resolve the same stats path, none of them
\* raising an exception.
C29_SameStatsPath ==
    located.by = Resolvers =>
        \A a, b \in Resolvers :
            /\ located[a].raised = "none"
            /\ located[a].loc = located[b].loc

\* ---- counting under concurrency ----
\* the uses of session-wrap:wrap in the stats file InitCount starts from
InitialUses == Uses(CHOOSE d \in InitDocs : TRUE, SESSION_WRAP_WRAP)

\* every invocation started so far has its own slot and has ended without an
\* exception; Hooks(s): the hooks among them that recorded s
AllEnded ==
    /\ started >= 1 /\ started <= NumProcs
    /\ \A p \in 1..started : pc[p] = "done" /\ failed[p] = "none" /\ fault[p] = "none"
Hooks(s) == {p \in 1..started : kind[p] = "hook" /\ name[p] = s /\ "replace" \in effects[p]}
CliUses(s) == {p \in 1..started : kind[p] = "use" /\ name[p] = s}

\* C26 as stated: when n hook invocations for session-wrap:wrap have ended
\* without a failure, whatever CLI invocations ran meanwhile, the persisted
\* uses is at least k + 1 and at most k + n plus the CLI's increments.
C26_OneIncrementSurvives ==
    AllEnded /\ Hooks(SESSION_WRAP_WRAP) # {} =>
        /\ file.kind = "doc"
        /\ Uses(file.doc, SESSION_WRAP_WRAP) >= InitialUses + 1
        /\ Uses(file.doc, SESSION_WRAP_WRAP) <=
              InitialUses + Cardinality(Hooks(SESSION_WRAP_WRAP))
                          + Cardinality(CliUses(SESSION_WRAP_WRAP))

\* C26 amended: when the n hook invocations for session-wrap:wrap are the
\* only invocations that ran, in any interleaving with each other, the
\* persisted uses is at least k + 1 and at most k + n.
C26_OneIncrementSurvivesAmongHooks ==
    AllEnded /\ Hooks(SESSION_WRAP_WRAP) = 1..started =>
        /\ file.kind = "doc"
        /\ Uses(file.doc, SESSION_WRAP_WRAP) >= InitialUses + 1
        /\ Uses(file.doc, SESSION_WRAP_WRAP) <= InitialUses + started

\* C26 witness: two hook invocations for session-wrap:wrap overlapped and
\* ended, and one of the two increments is in the file.
C26_Witness ==
    /\ AllEnded /\ started = 2
    /\ Hooks(SESSION_WRAP_WRAP) = {1, 2}
    /\ base[1] = base[2]
    /\ Uses(file.doc, SESSION_WRAP_WRAP) = InitialUses + 1

\* ---- the presentation operations ----
Writers == {"hook", "use", "pin"}

\* the invocation in slot p takes the step
Steps(p) == <<id[p], pc[p]>> # <<id'[p], pc'[p]>>

\* C23: a step of a display command or of the dashboard leaves the stats file
\* as it is, absent or present, puts no temporary file next to it and has no
\* effect on it; every change of the stats file is a step of a hook, of
\* "use" or of "pin".
C23_ViewsNeverWrite ==
    [][/\ \A p \in Procs :
             (Steps(p) /\ kind'[p] \notin Writers) =>
                 /\ file' = file
                 /\ temps' = temps
                 /\ effects'[p] \cap {"truncate", "write", "replace", "mkstemp"} = {}
       /\ (file' # file =>
             \E p \in Procs : Steps(p) /\ kind[p] \in Writers /\ effects'[p] # effects[p])]_vars

\* C23 witness: a display command has printed and the dashboard has written
\* dashboard.html, and the stats file is still absent.
C23_Witness ==
    \E p, q \in Procs :
        /\ kind[p] \in DisplayCommands /\ pc[p] = "done" /\ out[p] # <<>>
        /\ kind[q] = "dashboard" /\ pc[q] = "done" /\ "write_dashboard" \in effects[q]
        /\ file = Absent

====
